---- MODULE Spec2Model ----
(***************************************************************************)
(* lswasm: the module manager (wasm_module_manager.{h,cc}), the per-request *)
(* filter context (http_filter.h) and the request handler (main.cpp).       *)
(*                                                                           *)
(* Two specifications are given.                                             *)
(*   Spec     the program as built: one thread, handle_client_data runs a    *)
(*            request to completion; the manager's load/unload are called    *)
(*            only between requests.                                         *)
(*   SpecApi  the manager's public interface driven by arbitrary callers:    *)
(*            any sequence (hence any call-level interleaving of several     *)
(*            requests) of load, unload, executeFilter and the accessors.    *)
(***************************************************************************)
EXTENDS Integers, Sequences, FiniteSets, TLC

(***************************************************************************)
(* Bounds of the model.                                                      *)
(***************************************************************************)
\* Requests handled in one run of Spec.
MaxRequests == 2
\* Context ids the callers of SpecApi pass: 1..MaxApiId.
MaxApiId == 2

(***************************************************************************)
(* Program constants.                                                        *)
(***************************************************************************)
\* Context ids are uint32_t.  A value v is held as its two 16-bit halves,
\* v = hi * 65536 + lo, so that the arithmetic is that of the 32-bit type.
DEFAULT_PORT == 8080

UINT16_MODULUS == 65536

U32(hi, lo) == [hi |-> hi, lo |-> lo]

\* v + 1 in uint32_t arithmetic: the carry out of the high half is dropped.
U32Inc(v) ==
  IF v.lo + 1 < UINT16_MODULUS THEN U32(v.hi, v.lo + 1)
  ELSE U32((v.hi + 1) % UINT16_MODULUS, 0)

U32Less(v, w) == v.hi < w.hi \/ (v.hi = w.hi /\ v.lo < w.lo)

U32_ZERO == U32(0, 0)

U32_MAX == U32(UINT16_MODULUS - 1, UINT16_MODULUS - 1)

\* g_next_context_id{1}
FIRST_CONTEXT_ID == U32(0, 1)

\* Module names; std::map iterates them in ascending key order.
Names == {"a", "b"}

NameRank(n) == CASE n = "a" -> 1 [] n = "b" -> 2 [] OTHER -> 3

\* A handler that dispatches onDone once, after the response phases.
PhaseOrder_DoneOnce ==
  << "onRequestHeaders", "onRequestBody", "onRequestTrailers",
     "onResponseHeaders", "onResponseBody", "onResponseTrailers", "onDone" >>

\* The phase strings handle_client_data dispatches, in its order.
PhaseOrder ==
  << "onRequestHeaders", "onRequestBody", "onRequestTrailers", "onDone",
     "onResponseHeaders", "onResponseBody", "onResponseTrailers", "onDone" >>

\* A set of recognised phases that also holds the metadata hook.
KnownPhases_WithMetadata ==
  { "onRequestHeaders", "onRequestBody", "onRequestTrailers",
    "onResponseHeaders", "onResponseBody", "onResponseTrailers", "onDone",
    "onRequestMetadata" }

\* The phase names executeFilter recognises.
KnownPhases ==
  { "onRequestHeaders", "onRequestBody", "onRequestTrailers",
    "onResponseHeaders", "onResponseBody", "onResponseTrailers", "onDone" }

\* A phase string executeFilter does not recognise (HttpFilterContext's
\* metadata/connection/data hooks pass such names).
UnknownPhases == { "onRequestMetadata" }

(***************************************************************************)
(* LsWasmContext: the captured local response of one stream context.         *)
(***************************************************************************)
\* log_ is held as the sequence of the pieces appended to it.
NewContext ==
  [has_local_response |-> FALSE, local_response_code |-> 0, local_response_body |-> "",
   local_response_details |-> "", log_ |-> << >>]

\* log dropping a captured local response.
log_ClearsLocalResponse(ctx, level, message) ==
  [ctx EXCEPT !.log_ = @ \o << message, "\n" >>,
              !.has_local_response = FALSE,
              !.local_response_code = 0,
              !.local_response_body = ""]

\* log_ += std::string(message) + "\n"
log(ctx, level, message) == [ctx EXCEPT !.log_ = @ \o << message, "\n" >>]

\* The value log returns.
logResult(ctx, level, message) == "Ok"

\* sendLocalResponse keeping the first capture.
sendLocalResponse_KeepFirst(ctx, response_code, body, details) ==
  IF ctx.has_local_response THEN ctx
  ELSE [ctx EXCEPT !.has_local_response = TRUE,
                   !.local_response_code = response_code,
                   !.local_response_body = body,
                   !.local_response_details = details]

\* sendLocalResponse storing the code and the body without raising the flag.
sendLocalResponse_Unflagged(ctx, response_code, body, details) ==
  [ctx EXCEPT !.local_response_code = response_code,
              !.local_response_body = body,
              !.local_response_details = details]

sendLocalResponse(ctx, response_code, body, details) ==
  [ctx EXCEPT !.has_local_response = TRUE,
              !.local_response_code = response_code,
              !.local_response_body = body,
              !.local_response_details = details]

\* The value sendLocalResponse returns.
sendLocalResponseResult(ctx, response_code, body, details) == "Ok"

resetLocalResponse(ctx) ==
  [ctx EXCEPT !.has_local_response = FALSE,
              !.local_response_code = 0,
              !.local_response_body = "",
              !.local_response_details = ""]

(***************************************************************************)
(* What the guest (and the runtime under it) does in one callback: whether   *)
(* creating the stream context works, the last sendLocalResponse it makes    *)
(* (if any), and how the callback ends: it returns, it traps (the VM is      *)
(* marked failed, isFailed() is true from then on), or a std::exception      *)
(* unwinds into executeFilter.                                               *)
(***************************************************************************)
NoSend == [code |-> 0, body |-> "", details |-> ""]

Sends ==
  { [code |-> 403, body |-> "denied", details |-> "blocked"],
    [code |-> 200, body |-> "hello", details |-> ""] }

GuestChoices ==
  { [create |-> "fail", send |-> NoSend, end |-> "return"] }
  \cup [create : {"ok"}, send : Sends \cup {NoSend}, end : {"return", "trap", "throw"}]

\* A guest callback that returns and captures nothing.
QuietGuest == [create |-> "ok", send |-> NoSend, end |-> "return"]

(***************************************************************************)
(* WasmModuleManager::ModuleState and the registry modules_.                 *)
(***************************************************************************)
\* A ModuleState that starts out holding a context with a local response.
ModuleState_WithResponse ==
  [wasm_failed |-> FALSE, has_ctx |-> TRUE,
   ctx |-> sendLocalResponse(NewContext, 403, "denied", "blocked"),
   stream_context_id |-> FIRST_CONTEXT_ID]

ModuleState ==
  [wasm_failed |-> FALSE, has_ctx |-> FALSE, ctx |-> NewContext,
   stream_context_id |-> U32_ZERO]

\* The result of one executeFilter call: the registry after it, the value
\* returned, whether a guest callback ran, whether a stream context was
\* created, the stored id of the context the callback ran on and that
\* context as the callback found it.
FilterResult(ms, ret, invoked, created, on_id, before) ==
  [modules |-> ms, ret |-> ret, invoked |-> invoked, created |-> created,
   on_id |-> on_id, before |-> before]

\* A call that runs no callback.
NoCallback(ms, ret) == FilterResult(ms, ret, FALSE, FALSE, U32_ZERO, NewContext)

\* A callback whose sendLocalResponse lands on the stream context of every
\* module that has one.
RunCallback_OnEveryContext(ms, name, st, g, created) ==
  LET write(c) == IF g.send = NoSend THEN c
                  ELSE sendLocalResponse(c, g.send.code, g.send.body,
                                         g.send.details)
      st1  == [st EXCEPT !.ctx = write(st.ctx), !.wasm_failed = (g.end = "trap")]
      ms1  == [n \in DOMAIN ms |->
                 IF n = name THEN st1
                 ELSE IF ms[n].has_ctx THEN [ms[n] EXCEPT !.ctx = write(@)]
                 ELSE ms[n]]
  IN FilterResult(ms1, g.end # "throw", TRUE, created, st.stream_context_id,
                  st.ctx)

\* The guest callback on the module's stream context (lines 154-180, 185-190).
RunCallback(ms, name, st, g, created) ==
  LET ctx1 == IF g.send = NoSend THEN st.ctx
              ELSE sendLocalResponse(st.ctx, g.send.code, g.send.body,
                                     g.send.details)
      st1  == [st EXCEPT !.ctx = ctx1, !.wasm_failed = (g.end = "trap")]
  IN FilterResult([ms EXCEPT ![name] = st1], g.end # "throw", TRUE, created,
                  st.stream_context_id, st.ctx)

\* executeFilter treating a missing module like an unknown phase.
executeFilter_MissingModuleSucceeds(ms, name, context_id, phase, g) ==
  IF name \notin DOMAIN ms THEN NoCallback(ms, TRUE)
  ELSE
    LET st == ms[name] IN
    IF st.wasm_failed THEN NoCallback(ms, FALSE)
    ELSE IF phase = "onRequestHeaders" THEN
      IF ~st.has_ctx \/ st.stream_context_id # context_id THEN
        IF g.create = "fail" THEN NoCallback(ms, FALSE)
        ELSE RunCallback(ms, name,
                         [st EXCEPT !.has_ctx = TRUE,
                                    !.ctx = resetLocalResponse(NewContext),
                                    !.stream_context_id = context_id],
                         g, TRUE)
      ELSE RunCallback(ms, name, st, g, FALSE)
    ELSE IF phase \in KnownPhases THEN
      IF st.has_ctx THEN RunCallback(ms, name, st, g, FALSE)
      ELSE NoCallback(ms, TRUE)
    ELSE NoCallback(ms, TRUE)

\* executeFilter without its test of the VM's failed flag.
executeFilter_IgnoresFailed(ms, name, context_id, phase, g) ==
  IF name \notin DOMAIN ms THEN NoCallback(ms, FALSE)
  ELSE
    LET st == ms[name] IN
    IF phase = "onRequestHeaders" THEN
      IF ~st.has_ctx \/ st.stream_context_id # context_id THEN
        IF g.create = "fail" THEN NoCallback(ms, FALSE)
        ELSE RunCallback(ms, name,
                         [st EXCEPT !.has_ctx = TRUE,
                                    !.ctx = resetLocalResponse(NewContext),
                                    !.stream_context_id = context_id],
                         g, TRUE)
      ELSE RunCallback(ms, name, st, g, FALSE)
    ELSE IF phase \in KnownPhases THEN
      IF st.has_ctx THEN RunCallback(ms, name, st, g, FALSE)
      ELSE NoCallback(ms, TRUE)
    ELSE NoCallback(ms, TRUE)

\* executeFilter creating the stream context in whatever recognised phase
\* comes first for an id.
executeFilter_CreatesInAnyPhase(ms, name, context_id, phase, g) ==
  IF name \notin DOMAIN ms THEN NoCallback(ms, FALSE)
  ELSE
    LET st == ms[name] IN
    IF st.wasm_failed THEN NoCallback(ms, FALSE)
    ELSE IF phase \in KnownPhases THEN
      IF ~st.has_ctx \/ st.stream_context_id # context_id THEN
        IF g.create = "fail" THEN NoCallback(ms, FALSE)
        ELSE RunCallback(ms, name,
                         [st EXCEPT !.has_ctx = TRUE,
                                    !.ctx = resetLocalResponse(NewContext),
                                    !.stream_context_id = context_id],
                         g, TRUE)
      ELSE RunCallback(ms, name, st, g, FALSE)
    ELSE NoCallback(ms, TRUE)

\* executeFilter making a new stream context for every onRequestHeaders.
executeFilter_AlwaysFresh(ms, name, context_id, phase, g) ==
  IF name \notin DOMAIN ms THEN NoCallback(ms, FALSE)
  ELSE
    LET st == ms[name] IN
    IF st.wasm_failed THEN NoCallback(ms, FALSE)
    ELSE IF phase = "onRequestHeaders" THEN
      IF g.create = "fail" THEN NoCallback(ms, FALSE)
      ELSE RunCallback(ms, name,
                       [st EXCEPT !.has_ctx = TRUE,
                                  !.ctx = resetLocalResponse(NewContext),
                                  !.stream_context_id = context_id],
                       g, ~st.has_ctx \/ st.stream_context_id # context_id)
    ELSE IF phase \in KnownPhases THEN
      IF st.has_ctx THEN RunCallback(ms, name, st, g, FALSE)
      ELSE NoCallback(ms, TRUE)
    ELSE NoCallback(ms, TRUE)

executeFilter(ms, name, context_id, phase, g) ==
  IF name \notin DOMAIN ms THEN NoCallback(ms, FALSE)
  ELSE
    LET st == ms[name] IN
    IF st.wasm_failed THEN NoCallback(ms, FALSE)
    ELSE IF phase = "onRequestHeaders" THEN
      IF ~st.has_ctx \/ st.stream_context_id # context_id THEN
        IF g.create = "fail" THEN NoCallback(ms, FALSE)
        ELSE RunCallback(ms, name,
                         [st EXCEPT !.has_ctx = TRUE,
                                    !.ctx = resetLocalResponse(NewContext),
                                    !.stream_context_id = context_id],
                         g, TRUE)
      ELSE RunCallback(ms, name, st, g, FALSE)
    ELSE IF phase \in KnownPhases THEN
      IF st.has_ctx THEN RunCallback(ms, name, st, g, FALSE)
      ELSE NoCallback(ms, TRUE)
    ELSE NoCallback(ms, TRUE)

\* The diagnostics one executeFilter call writes to std::cout / std::cerr, by
\* kind, in order.
executeFilterLog(ms, name, context_id, phase, g) ==
  IF name \notin DOMAIN ms THEN << "Module not found" >>
  ELSE IF ms[name].wasm_failed THEN << "Module VM not available or failed" >>
  ELSE << "Executing" >> \o
       ( IF phase = "onRequestHeaders"
         THEN IF (~ms[name].has_ctx \/ ms[name].stream_context_id # context_id)
                 /\ g.create = "fail"
              THEN << "Failed to create stream context" >>
              ELSE IF g.end = "throw" THEN << "Error executing" >> ELSE << >>
         ELSE IF phase \in KnownPhases
         THEN IF ms[name].has_ctx /\ g.end = "throw"
              THEN << "Error executing" >> ELSE << >>
         ELSE << "Unknown phase" >> )

\* The fault raised inside one executeFilter call, if any: createContext
\* gives no context ("create"), the guest callback traps ("trap": the runtime
\* marks the VM failed and the callback returns), or a std::exception unwinds
\* out of the callback into the catch clause ("throw").
executeFilterFault(ms, name, context_id, phase, g) ==
  IF name \notin DOMAIN ms \/ ms[name].wasm_failed THEN "none"
  ELSE IF phase = "onRequestHeaders"
          /\ (~ms[name].has_ctx \/ ms[name].stream_context_id # context_id)
          /\ g.create = "fail"
  THEN "create"
  ELSE IF \/ phase = "onRequestHeaders"
          \/ (phase \in KnownPhases /\ ms[name].has_ctx)
  THEN IF g.end = "return" THEN "none" ELSE g.end
  ELSE "none"

hasLocalResponse(ms, name) ==
  IF name \in DOMAIN ms /\ ms[name].has_ctx
  THEN ms[name].ctx.has_local_response ELSE FALSE

getLocalResponseCode(ms, name) ==
  IF name \in DOMAIN ms /\ ms[name].has_ctx
  THEN ms[name].ctx.local_response_code ELSE 0

getLocalResponseBody(ms, name) ==
  IF name \in DOMAIN ms /\ ms[name].has_ctx
  THEN ms[name].ctx.local_response_body ELSE ""

\* std::map iteration: the registered names in ascending order.
RECURSIVE SortedNames(_)
SortedNames(S) ==
  IF S = {} THEN << >>
  ELSE LET m == CHOOSE x \in S : \A y \in S : NameRank(x) <= NameRank(y)
       IN << m >> \o SortedNames(S \ {m})

\* getLoadedModules listing the names in descending order.
getLoadedModules_Descending(ms) ==
  LET l == SortedNames(DOMAIN ms)
  IN [i \in 1..Len(l) |-> l[Len(l) + 1 - i]]

getLoadedModules(ms) == SortedNames(DOMAIN ms)

hasModule(ms, name) == name \in DOMAIN ms

(***************************************************************************)
(* loadModuleFromMemory: the steps run and the value returned, for each way  *)
(* the runtime can answer.                                                   *)
(***************************************************************************)
LoadOutcomes == { "ok", "load_fails", "initialize_fails", "start_fails",
                  "configure_fails", "throws" }

LoadSteps(outcome) ==
  CASE outcome = "load_fails"       -> << "load" >>
    [] outcome = "initialize_fails" -> << "load", "initialize" >>
    [] outcome = "start_fails"      -> << "load", "initialize", "start" >>
    [] outcome = "throws"           -> << "load" >>
    [] OTHER                        -> << "load", "initialize", "start", "configure" >>

\* loadModuleFromMemory registering the module before configure is called.
loadModuleFromMemory_RegisterBeforeConfigure(ms, name, outcome) ==
  IF name \in DOMAIN ms THEN [modules |-> ms, ret |-> FALSE, steps |-> << >>]
  ELSE IF outcome \notin { "ok", "configure_fails" }
  THEN [modules |-> ms, ret |-> FALSE, steps |-> LoadSteps(outcome)]
  ELSE [modules |-> [n \in DOMAIN ms \cup {name} |->
                       IF n = name THEN ModuleState ELSE ms[n]],
        ret |-> outcome = "ok", steps |-> LoadSteps(outcome)]

\* loadModuleFromMemory without its check for a registered name.
loadModuleFromMemory_NoDuplicateCheck(ms, name, outcome) ==
  IF outcome # "ok" THEN [modules |-> ms, ret |-> FALSE, steps |-> LoadSteps(outcome)]
  ELSE [modules |-> [n \in DOMAIN ms \cup {name} |->
                       IF n = name THEN ModuleState ELSE ms[n]],
        ret |-> TRUE, steps |-> LoadSteps(outcome)]

loadModuleFromMemory(ms, name, outcome) ==
  IF name \in DOMAIN ms THEN [modules |-> ms, ret |-> FALSE, steps |-> << >>]
  ELSE IF outcome # "ok" THEN [modules |-> ms, ret |-> FALSE, steps |-> LoadSteps(outcome)]
  ELSE [modules |-> [n \in DOMAIN ms \cup {name} |->
                       IF n = name THEN ModuleState ELSE ms[n]],
        ret |-> TRUE, steps |-> LoadSteps(outcome)]

\* unloadModule emptying the registry instead of erasing one entry.
unloadModule_Clear(ms, name) ==
  IF name \notin DOMAIN ms THEN [modules |-> ms, ret |-> FALSE]
  ELSE [modules |-> << >>, ret |-> TRUE]

unloadModule(ms, name) ==
  IF name \notin DOMAIN ms THEN [modules |-> ms, ret |-> FALSE]
  ELSE [modules |-> [n \in DOMAIN ms \ {name} |-> ms[n]], ret |-> TRUE]

(***************************************************************************)
(* HttpData and HttpFilterContext.                                           *)
(***************************************************************************)
HttpData ==
  [has_local_response |-> FALSE, local_response_code |-> 0, local_response_body |-> ""]

\* checkLocalResponse copying the module's state whether or not it holds a
\* local response.
checkLocalResponse_AlwaysCopy(http_data, ms, module_name) ==
  [has_local_response |-> hasLocalResponse(ms, module_name),
   local_response_code |-> getLocalResponseCode(ms, module_name),
   local_response_body |-> getLocalResponseBody(ms, module_name)]

checkLocalResponse(http_data, ms, module_name) ==
  IF hasLocalResponse(ms, module_name)
  THEN [has_local_response |-> TRUE,
        local_response_code |-> getLocalResponseCode(ms, module_name),
        local_response_body |-> getLocalResponseBody(ms, module_name)]
  ELSE http_data

\* The response handed to send_all.
NoResponse == [kind |-> "none", code |-> 0, body |-> ""]

build_local_response(http_data) ==
  [kind |-> "local", code |-> http_data.local_response_code,
   body |-> http_data.local_response_body]

process_request == [kind |-> "default", code |-> 200, body |-> "diagnostic"]

(***************************************************************************)
(* State.                                                                    *)
(***************************************************************************)
VARIABLES
  modules,            \* WasmModuleManager::modules_
  g_next_context_id,  \* main.cpp's context-id counter
  h,                  \* the handle_client_data call in progress, if any
  resp,               \* what send_all was given for the request in progress
  handled,            \* requests handled so far in this run
  call,               \* SpecApi: the last call on the manager and its result
  seen,               \* SpecApi: the modules request TrackedId was dispatched to
                      \*          (kept when the module is unloaded, until the
                      \*          name is loaded again)
  own,                \* SpecApi: per module, the context created for TrackedId
  client_buffers,     \* SpecConn: accept_connections' client_buffers (fd -> bytes)
  pending,            \* SpecConn: per fd, the bytes the client has yet to deliver
  cur,                \* SpecConn: the connection handle_client_data is called for
  closed,             \* SpecConn: per closed fd, how its connection ended
  context,            \* SpecCtx: one LsWasmContext
  ctx_calls,          \* SpecCtx: the sendLocalResponse calls made on it since
                      \*          it was created or reset, with their results
  threads,            \* SpecThreads: per thread, the manager call it is in
  envs_,              \* SpecEnv: WasmModuleManager::envs_
  module_envs,        \* SpecEnv: per registered module, the envs its LsWasm holds
  proc,               \* SpecMain: main(), its locals and what it has done
  retired             \* SpecReload: per name, the ModuleState last unloaded

conn == << client_buffers, pending, cur, closed >>

unit == << context, ctx_calls, retired >>

env == << envs_, module_envs >>

ext == << threads, env, proc >>

vars == << modules, g_next_context_id, h, resp, handled, call, seen, own,
           client_buffers, pending, cur, closed, context, ctx_calls, threads,
           envs_, module_envs, proc, retired >>

\* The locals of handle_client_data (ctx_id, http_data, the loop position)
\* and a record of the request so far: the executeFilter calls made (disp),
\* the local responses guests captured in the onRequestHeaders phase
\* (rh_sends), whether a guest captured one in the current phase (sent_now)
\* or an earlier one (sent_before), whether an executeFilter call failed,
\* the number of send_all calls (sends), and whether some module held a local
\* response when the onRequestHeaders phase ended (lr_after_rh).
Idle ==
  [pc |-> "idle", parsed |-> FALSE, ctx_id |-> U32_ZERO, phase |-> 0, mi |-> 0,
   mods |-> << >>, http_data |-> HttpData,
   disp |-> << >>, rh_sends |-> {}, sent_now |-> FALSE, sent_before |-> FALSE,
   failed_any |-> FALSE, sends |-> 0, lr_after_rh |-> FALSE,
   last_sent |-> NoSend]

NoCall ==
  [op |-> "none", name |-> "", context_id |-> U32_ZERO, phase |-> "", ret |-> FALSE,
   steps |-> << >>, outcome |-> "", registered |-> FALSE, first |-> FALSE,
   invoked |-> FALSE, fault |-> "none", message |-> "",
   created |-> FALSE, on_id |-> U32_ZERO, lr |-> NewContext]

\* envs_ of a manager on which setEnvironmentVariables was not called: an
\* environment is a set of << key, value >> pairs.
NoEnvs == {}

\* main() has not been entered: its locals have their initial values.  A
\* string of the command line is the sequence of its pieces.
NotStarted ==
  [pc |-> "start", argv |-> << >>, i |-> 1, port |-> DEFAULT_PORT,
   uds_path |-> << >>, wasm_module_path |-> << >>, wasm_envs |-> << >>,
   status |-> "running", manager |-> FALSE, listening |-> FALSE]

\* Threads that call the manager: each is outside every call.
MaxThreads == 2

ThreadIds == 1..MaxThreads

NotInCall ==
  [pc |-> "idle", name |-> "", context_id |-> U32_ZERO, phase |-> "",
   dangling |-> FALSE, raced |-> FALSE]

NoThreads == [t \in ThreadIds |-> NotInCall]

\* No handle_client_data call is in progress.
NoConnection == [fd |-> 0, request_body |-> << >>]

\* The counter is 1 when the process starts.  A process that has answered
\* 4294967294 requests while no module was loaded is in the second initial
\* state: each such request only advances the counter.
Init ==
  /\ modules = << >>
  /\ g_next_context_id \in { FIRST_CONTEXT_ID, U32_MAX }
  /\ h = Idle
  /\ resp = NoResponse
  /\ handled = 0
  /\ call = NoCall
  /\ seen = {}
  /\ own = << >>
  /\ client_buffers = << >>
  /\ pending = << >>
  /\ cur = NoConnection
  /\ closed = << >>
  /\ context = NewContext
  /\ ctx_calls = << >>
  /\ threads = NoThreads
  /\ envs_ = NoEnvs
  /\ module_envs = << >>
  /\ proc = NotStarted
  /\ retired = << >>

(***************************************************************************)
(* Spec: the manager's load and unload, called between requests.             *)
(***************************************************************************)
LoadModule(name, outcome) ==
  /\ h.pc = "idle"
  /\ modules' = loadModuleFromMemory(modules, name, outcome).modules
  /\ UNCHANGED << g_next_context_id, h, resp, handled, call, seen, own,
                  conn, unit, ext >>

UnloadModule(name) ==
  /\ h.pc = "idle"
  /\ modules' = unloadModule(modules, name).modules
  /\ UNCHANGED << g_next_context_id, h, resp, handled, call, seen, own,
                  conn, unit, ext >>

(***************************************************************************)
(* Spec: handle_client_data, one loop iteration per step.                    *)
(***************************************************************************)
\* The counter after fetch_add(1).
FetchAdd(counter) == U32Inc(counter)

\* parse_request's verdict is an input: the request line has a method and a
\* path, or it does not.
BeginRequest(parse_ok) ==
  /\ h.pc = "idle"
  /\ handled < MaxRequests
  /\ \/ /\ ~parse_ok
        /\ h' = [Idle EXCEPT !.pc = "done"]
        /\ UNCHANGED g_next_context_id
     \/ /\ parse_ok
        /\ h' = [Idle EXCEPT !.pc = "phase", !.parsed = TRUE,
                             !.ctx_id = g_next_context_id,
                             !.phase = 1, !.mi = 1,
                             !.mods = getLoadedModules(modules)]
        /\ g_next_context_id' = FetchAdd(g_next_context_id)
  /\ resp' = NoResponse
  /\ UNCHANGED << modules, handled, call, seen, own, unit, ext >>

\* A loop that stops at the first executeFilter call that fails.
NextModuleIndex_StopOnFailure(mi, ret, n) == IF ret THEN mi + 1 ELSE n + 1

\* The for loops of HttpFilterContext ignore executeFilter's result: the next
\* module is always tried.
\* A loop that skips every second module.
NextModuleIndex_SkipNext(mi, ret, n) == mi + 2

NextModuleIndex(mi, ret, n) == mi + 1

\* One iteration of the loop of HttpFilterContext::on<Phase>.
Dispatch(g) ==
  /\ h.pc = "phase"
  /\ h.mi <= Len(h.mods)
  /\ LET m  == h.mods[h.mi]
         r  == executeFilter(modules, m, h.ctx_id, PhaseOrder[h.phase], g)
         hd == IF h.phase = 1 THEN checkLocalResponse(h.http_data, r.modules, m)
               ELSE h.http_data
         sent == r.invoked /\ g.send # NoSend
     IN /\ modules' = r.modules
        /\ h' = [h EXCEPT
                   !.mi = NextModuleIndex(h.mi, r.ret, Len(h.mods)),
                   !.http_data = hd,
                   !.disp = Append(@, << m, h.phase >>),
                   !.rh_sends = IF sent /\ h.phase = 1
                                THEN @ \cup { r.modules[m].ctx } ELSE @,
                   !.sent_now = @ \/ sent,
                   !.last_sent = IF sent /\ h.phase = 1 THEN g.send ELSE @,
                   !.failed_any = @ \/ ~r.ret]
  /\ UNCHANGED << g_next_context_id, resp, handled, call, seen, own,
                  conn, unit, ext >>

\* A handler that never tests for a local response.
UseLocalResponse_Never(http_data) == FALSE

\* if (http_data.has_local_response)
UseLocalResponse(http_data) == http_data.has_local_response

\* Some registered module holds a local response.
SomeLocalResponse(ms) == \E m \in DOMAIN ms : hasLocalResponse(ms, m)

\* What handle_client_data does between two loops and after the last one.
EndPhase ==
  /\ h.pc = "phase"
  /\ h.mi > Len(h.mods)
  /\ LET after == IF h.phase = 1 THEN SomeLocalResponse(modules)
                  ELSE h.lr_after_rh
     IN
     IF h.phase = 1 /\ UseLocalResponse(h.http_data)
     THEN /\ resp' = build_local_response(h.http_data)
          /\ h' = [h EXCEPT !.pc = "done", !.sends = @ + 1,
                            !.lr_after_rh = after]
     ELSE IF h.phase < Len(PhaseOrder)
     THEN /\ h' = [h EXCEPT !.phase = @ + 1, !.mi = 1,
                            !.mods = getLoadedModules(modules),
                            !.sent_before = @ \/ h.sent_now,
                            !.sent_now = FALSE,
                            !.lr_after_rh = after]
          /\ UNCHANGED resp
     ELSE /\ resp' = process_request
          /\ h' = [h EXCEPT !.pc = "done", !.sends = @ + 1]
  /\ UNCHANGED << modules, g_next_context_id, handled, call, seen, own,
                  conn, unit, ext >>

\* handle_client_data has returned: the accept loop closes the connection.
CloseConnection ==
  /\ h.pc = "done"
  /\ h' = Idle
  /\ resp' = NoResponse
  /\ handled' = handled + 1
  /\ UNCHANGED << modules, g_next_context_id, call, seen, own, unit, ext >>

Next ==
  \/ \E name \in Names, outcome \in LoadOutcomes : LoadModule(name, outcome)
  \/ \E name \in Names : UnloadModule(name)
  \/ \E parse_ok \in BOOLEAN : BeginRequest(parse_ok) /\ UNCHANGED conn
  \/ \E g \in GuestChoices : Dispatch(g)
  \/ EndPhase
  \/ CloseConnection /\ UNCHANGED conn

Spec == Init /\ [][Next]_vars

(***************************************************************************)
(* SpecApi: the manager's interface under arbitrary callers.                 *)
(***************************************************************************)
ApiIds == { U32(0, i) : i \in 1..MaxApiId }

\* The request whose view of the manager is followed: the first id issued.
\* executeFilter only compares ids for equality, so any id would do.
TrackedId == FIRST_CONTEXT_ID

\* The phases the callers pass: the one that creates contexts, one that does
\* not, and one executeFilter does not recognise.
ApiPhases == { "onRequestHeaders", "onRequestBody" } \cup UnknownPhases

\* What the guest does in a callback made through this interface.
ApiGuestChoices == { g \in GuestChoices : g.send.code # 200 }

\* The process has just started.
InitApi == Init /\ g_next_context_id = FIRST_CONTEXT_ID

\* A function without the key name.
DropModule(f, name) == [k \in DOMAIN f \ {name} |-> f[k]]

\* f with key k set to v.
Put(f, k, v) == [x \in DOMAIN f \cup {k} |-> IF x = k THEN v ELSE f[x]]

ApiLoadModule(name, outcome) ==
  LET r == loadModuleFromMemory(modules, name, outcome) IN
  /\ modules' = r.modules
  /\ call' = [NoCall EXCEPT !.op = "loadModuleFromMemory", !.name = name,
                            !.ret = r.ret, !.steps = r.steps,
                            !.outcome = outcome,
                            !.registered = hasModule(modules, name)]
  /\ seen' = IF r.ret THEN seen \ {name} ELSE seen
  /\ UNCHANGED << g_next_context_id, h, resp, handled, own, conn, unit, ext >>

\* The module's contexts go with it; the requests dispatched to it go on.
ApiUnloadModule(name) ==
  LET r == unloadModule(modules, name) IN
  /\ modules' = r.modules
  /\ call' = [NoCall EXCEPT !.op = "unloadModule", !.name = name, !.ret = r.ret,
                            !.registered = hasModule(modules, name)]
  /\ own' = DropModule(own, name)
  /\ UNCHANGED << g_next_context_id, h, resp, handled, seen, conn, unit, ext >>

ApiExecuteFilter(name, id, phase, g) ==
  LET r == executeFilter(modules, name, id, phase, g) IN
  /\ modules' = r.modules
  /\ call' = [NoCall EXCEPT !.op = "executeFilter", !.name = name,
                            !.context_id = id, !.phase = phase, !.ret = r.ret,
                            !.registered = hasModule(modules, name),
                            !.first = (id = TrackedId /\ name \notin seen),
                            !.invoked = r.invoked, !.created = r.created,
                            !.fault = executeFilterFault(modules, name, id, phase, g),
                            !.on_id = r.on_id, !.lr = r.before]
  /\ seen' = IF hasModule(modules, name) /\ id = TrackedId
             THEN seen \cup {name} ELSE seen
  /\ own' = IF r.invoked /\ r.on_id = TrackedId
            THEN Put(own, name, r.modules[name].ctx) ELSE own
  /\ UNCHANGED << g_next_context_id, h, resp, handled, conn, unit, ext >>

\* HttpFilterContext::checkLocalResponse as the handler of request TrackedId
\* makes it, some time after that request was dispatched to the module.
ApiCheckLocalResponse(name) ==
  /\ name \in seen
  /\ call' = [NoCall EXCEPT !.op = "checkLocalResponse", !.name = name,
                            !.context_id = TrackedId,
                            !.ret = hasLocalResponse(modules, name),
                            !.registered = hasModule(modules, name),
                            !.lr = [has_local_response |-> hasLocalResponse(modules, name),
                                    local_response_code |-> getLocalResponseCode(modules, name),
                                    local_response_body |-> getLocalResponseBody(modules, name)]]
  /\ UNCHANGED << modules, g_next_context_id, h, resp, handled, seen, own,
                  conn, unit, ext >>

NextApi ==
  \/ \E name \in Names, outcome \in LoadOutcomes : ApiLoadModule(name, outcome)
  \/ \E name \in Names : ApiUnloadModule(name)
  \/ \E name \in Names, id \in ApiIds, phase \in ApiPhases, g \in ApiGuestChoices :
        ApiExecuteFilter(name, id, phase, g)
  \/ \E name \in Names : ApiCheckLocalResponse(name)

SpecApi == InitApi /\ [][NextApi]_vars

(***************************************************************************)
(* SpecConn: the epoll loop of accept_connections.  The bytes of a           *)
(* connection are a sequence of tokens (a word, a space, a CRLF, a run of    *)
(* header bytes); a recv returns one or more whole tokens, at most           *)
(* BUFFER_SIZE bytes.                                                        *)
(***************************************************************************)
BUFFER_SIZE == 4096

MAX_REQUEST_SIZE == 65536

\* Connections accepted in one run of SpecConn.
MaxConnections == 2

Fds == 1..MaxConnections

Whitespace == { "SP", "CRLF" }

\* The bytes of each token.
TokenSize(t) ==
  CASE t = "GET" -> 3
    [] t = "SP" -> 1
    [] t = "/" -> 1
    [] t = "HTTP/1.1" -> 8
    [] t = "CRLF" -> 2
    [] t = "Content-Length: 5" -> 17
    [] t = "he" -> 2
    [] t = "llo" -> 3
    [] t = "PAD4096" -> 4096
    [] t = "PAD4077" -> 4077
    [] t = "PAD4076" -> 4076

RECURSIVE BufferSize(_)
BufferSize(buf) ==
  IF buf = << >> THEN 0 ELSE TokenSize(Head(buf)) + BufferSize(Tail(buf))

\* client_buffers[fd].find("\r\n\r\n") != npos
HasHeaderEnd(buf) ==
  \E i \in 1..(Len(buf) - 1) : buf[i] = "CRLF" /\ buf[i + 1] = "CRLF"

\* The whitespace-separated words of the buffer, as operator>> extracts them.
Words(buf) ==
  LET starts == { i \in 1..Len(buf) :
                    /\ buf[i] \notin Whitespace
                    /\ (i = 1 \/ buf[i - 1] \in Whitespace) }
      RECURSIVE InOrder(_)
      InOrder(S) == IF S = {} THEN << >>
                    ELSE LET m == CHOOSE x \in S : \A y \in S : x <= y
                         IN << buf[m] >> \o InOrder(S \ {m})
  IN InOrder(starts)

\* parse_request accepting a request line without a path.
parse_request_MethodOnly(request) ==
  LET w == Words(request)
      method == IF Len(w) >= 1 THEN w[1] ELSE ""
      path   == IF Len(w) >= 2 THEN w[2] ELSE ""
  IN [ok |-> method # "", method |-> method, path |-> path,
      request_headers |-> {}, request_body |-> << >>]

\* parse_request: method, path and version are the first three words; the
\* request is rejected when method or path is missing.  After a request line
\* that ends in CRLF the first getline yields "\r", which ends the header
\* loop at once, and after a failed extraction getline fails: no header is
\* stored for the requests modelled here.  request_body is never assigned.
parse_request(request) ==
  LET w == Words(request)
      method == IF Len(w) >= 1 THEN w[1] ELSE ""
      path   == IF Len(w) >= 2 THEN w[2] ELSE ""
  IN [ok |-> method # "" /\ path # "", method |-> method, path |-> path,
      request_headers |-> {}, request_body |-> << >>]

RequestLine == << "GET", "SP", "/", "SP", "HTTP/1.1", "CRLF" >>

Pads(n) == [i \in 1..n |-> "PAD4096"]

\* What a client sends.
ScriptGet == RequestLine \o << "CRLF" >>

ScriptBody ==
  RequestLine \o << "Content-Length: 5", "CRLF", "CRLF", "he", "llo" >>

ScriptNoPath == << "GET", "CRLF", "CRLF" >>

\* The first 16 + 15 * 4096 bytes of a long request.
ScriptLong == RequestLine \o Pads(15)

\* What a client writes when it connects.
Scripts == { ScriptGet, ScriptBody, ScriptNoPath, ScriptLong }

\* 4096 more bytes and no end of headers: 65552 bytes.
TailOver == << "PAD4096" >>

\* 65537 bytes, the last four of them the end of the headers.
TailOverEnd == << "PAD4077", "CRLF", "CRLF" >>

\* 65536 bytes, the last four of them the end of the headers.
TailExact == << "PAD4076", "CRLF", "CRLF" >>

\* How a client goes on after the first bytes of a long request.
Tails == { TailOver, TailOverEnd, TailExact }

\* The body a script carries after the end of its headers.
BodyOf(script) == IF script = ScriptBody THEN << "he", "llo" >> ELSE << >>

\* What the guest does in a callback of SpecConn.
ConnGuestChoices ==
  { QuietGuest,
    [create |-> "ok",
     send |-> [code |-> 403, body |-> "denied", details |-> "blocked"],
     end |-> "return"] }

\* A loop that clears every buffer when it drops one connection.
Erase_All(f, k) == << >>

\* A loop that closes connections and keeps their buffers.
Erase_Nothing(f, k) == f

\* f without key k.
Erase(f, k) == [x \in DOMAIN f \ {k} |-> f[x]]

\* main has loaded its one module before accept_connections runs.
InitConn ==
  /\ modules = loadModuleFromMemory(<< >>, "a", "ok").modules
  /\ g_next_context_id = FIRST_CONTEXT_ID
  /\ h = Idle
  /\ resp = NoResponse
  /\ handled = 0
  /\ call = NoCall
  /\ seen = {}
  /\ own = << >>
  /\ client_buffers = << >>
  /\ pending = << >>
  /\ cur = NoConnection
  /\ closed = << >>
  /\ context = NewContext
  /\ ctx_calls = << >>
  /\ threads = NoThreads
  /\ envs_ = NoEnvs
  /\ module_envs = << >>
  /\ proc = NotStarted
  /\ retired = << >>

\* accept(): a new connection with an empty buffer.
ConnAccept(fd, script) ==
  /\ h.pc = "idle"
  /\ fd \notin DOMAIN client_buffers \cup DOMAIN closed
  /\ \A g \in Fds : g < fd => g \in DOMAIN client_buffers \cup DOMAIN closed
  /\ client_buffers' = Put(client_buffers, fd, << >>)
  /\ pending' = Put(pending, fd, script)
  /\ UNCHANGED << modules, g_next_context_id, h, resp, handled, call, seen, own,
                  cur, closed, unit, ext >>

\* The client of a long request writes its last bytes once the loop has read
\* the first ones.
ConnClientWrite(fd, tail) ==
  /\ h.pc = "idle"
  /\ fd \in DOMAIN client_buffers
  /\ client_buffers[fd] = ScriptLong
  /\ pending[fd] = << >>
  /\ pending' = Put(pending, fd, tail)
  /\ UNCHANGED << modules, g_next_context_id, h, resp, handled, call, seen, own,
                  client_buffers, cur, closed, unit, ext >>

\* A loop without the guard against buffer growth.
Oversize_NoGuard(buf) == FALSE

\* client_buffers[fd].size() > MAX_REQUEST_SIZE
Oversize(buf) == BufferSize(buf) > MAX_REQUEST_SIZE

\* How a connection ended that the size test closed: size is the size tested.
Dropped(why, buf) ==
  [why |-> why, size |-> BufferSize(buf), parsed |-> FALSE, dispatched |-> 0,
   sends |-> 0]

\* recv() returned n > 0 bytes: the first k tokens the client sent.  The
\* buffer is appended to, then tested for its size, then for the end of the
\* headers; with the headers complete handle_client_data is entered.
ConnRecv(fd, k) ==
  /\ h.pc = "idle"
  /\ fd \in DOMAIN client_buffers
  /\ k \in 1..Len(pending[fd])
  /\ BufferSize(SubSeq(pending[fd], 1, k)) <= BUFFER_SIZE
  /\ UNCHANGED << unit, ext >>
  /\ LET buf  == client_buffers[fd] \o SubSeq(pending[fd], 1, k)
         rest == SubSeq(pending[fd], k + 1, Len(pending[fd]))
     IN IF Oversize(buf)
        THEN /\ client_buffers' = Erase(client_buffers, fd)
             /\ pending' = Erase(pending, fd)
             /\ closed' = Put(closed, fd, Dropped("oversize", buf))
             /\ UNCHANGED << modules, g_next_context_id, h, resp, handled, call,
                             seen, own, cur >>
        ELSE IF HasHeaderEnd(buf)
        THEN /\ client_buffers' = Put(client_buffers, fd, buf)
             /\ pending' = Put(pending, fd, rest)
             /\ cur' = [fd |-> fd,
                        request_body |-> parse_request(buf).request_body]
             /\ BeginRequest(parse_request(buf).ok)
             /\ UNCHANGED closed
        ELSE /\ client_buffers' = Put(client_buffers, fd, buf)
             /\ pending' = Put(pending, fd, rest)
             /\ UNCHANGED << modules, g_next_context_id, h, resp, handled, call,
                             seen, own, cur, closed >>

\* How a connection ended that the peer closed: the n == 0 branch erases the
\* buffer before anything is appended and tests no size.
PeerClosed ==
  [why |-> "peer_closed", size |-> 0, parsed |-> FALSE, dispatched |-> 0,
   sends |-> 0]

\* recv() returned 0: the peer closed the connection.
ConnPeerClosed(fd) ==
  /\ h.pc = "idle"
  /\ fd \in DOMAIN client_buffers
  /\ client_buffers' = Erase(client_buffers, fd)
  /\ pending' = Erase(pending, fd)
  /\ closed' = Put(closed, fd, PeerClosed)
  /\ UNCHANGED << modules, g_next_context_id, h, resp, handled, call, seen, own,
                  cur, unit, ext >>

\* How a connection ended on which recv() failed: like the n == 0 branch,
\* the n < 0 branch erases the buffer before anything is appended.
ReadError ==
  [why |-> "read_error", size |-> 0, parsed |-> FALSE, dispatched |-> 0,
   sends |-> 0]

\* recv() returned n < 0 with an errno other than EAGAIN and EWOULDBLOCK.
ConnReadError(fd) ==
  /\ h.pc = "idle"
  /\ fd \in DOMAIN client_buffers
  /\ client_buffers' = Erase(client_buffers, fd)
  /\ pending' = Erase(pending, fd)
  /\ closed' = Put(closed, fd, ReadError)
  /\ UNCHANGED << modules, g_next_context_id, h, resp, handled, call, seen, own,
                  cur, unit, ext >>

\* handle_client_data has returned: the fd is closed and its buffer erased.
ConnClose ==
  /\ CloseConnection
  /\ client_buffers' = Erase(client_buffers, cur.fd)
  /\ pending' = Erase(pending, cur.fd)
  /\ closed' = Put(closed, cur.fd,
                   [why |-> "handled", size |-> BufferSize(client_buffers[cur.fd]),
                    parsed |-> h.parsed, dispatched |-> Len(h.disp),
                    sends |-> h.sends])
  /\ cur' = NoConnection

NextConn ==
  \/ \E fd \in Fds, script \in Scripts : ConnAccept(fd, script)
  \/ \E fd \in Fds, tail \in Tails : ConnClientWrite(fd, tail)
  \/ \E fd \in Fds, k \in 1..Len(ScriptBody) : ConnRecv(fd, k)
  \/ \E fd \in Fds : ConnPeerClosed(fd)
  \/ \E fd \in Fds : ConnReadError(fd)
  \/ \E g \in ConnGuestChoices : Dispatch(g)
  \/ EndPhase
  \/ ConnClose

SpecConn == InitConn /\ [][NextConn]_vars

(***************************************************************************)
(* SpecConnReuse: the same loop with the descriptor numbers as accept()      *)
(* hands them out: the lowest number that is not open, which may be that of  *)
(* a connection closed before.  closed keeps how the last connection of a    *)
(* number ended.  The guest captures nothing.                                *)
(***************************************************************************)
\* What the clients send: short requests on every descriptor, the long one
\* on descriptor 1.
ReuseScripts(fd) ==
  IF fd = 1 THEN { ScriptGet, ScriptNoPath, ScriptLong }
  ELSE { ScriptGet, ScriptNoPath }

\* accept(): the new connection gets the lowest free descriptor number and
\* client_buffers[client_socket] = std::string().
ConnAcceptLowest(fd, script) ==
  /\ h.pc = "idle"
  /\ fd \notin DOMAIN client_buffers
  /\ \A g \in Fds : g < fd => g \in DOMAIN client_buffers
  /\ client_buffers' = Put(client_buffers, fd, << >>)
  /\ pending' = Put(pending, fd, script)
  /\ UNCHANGED << modules, g_next_context_id, h, resp, handled, call, seen, own,
                  cur, closed, unit, ext >>

\* recv() with everything the client has sent waiting in the socket: it
\* returns as many of the bytes as fit into buf.
ConnRecvFull(fd, k) ==
  /\ fd \in DOMAIN pending
  /\ \/ k = Len(pending[fd])
     \/ /\ k < Len(pending[fd])
        /\ BufferSize(SubSeq(pending[fd], 1, k + 1)) > BUFFER_SIZE
  /\ ConnRecv(fd, k)

NextConnReuse ==
  \/ \E fd \in Fds : \E script \in ReuseScripts(fd) : ConnAcceptLowest(fd, script)
  \/ \E fd \in Fds : ConnClientWrite(fd, TailOver)
  \/ \E fd \in Fds, k \in 1..Len(ScriptBody) : ConnRecvFull(fd, k)
  \/ \E fd \in Fds : ConnPeerClosed(fd)
  \/ \E fd \in Fds : ConnReadError(fd)
  \/ Dispatch(QuietGuest)
  \/ EndPhase
  \/ ConnClose

SpecConnReuse == InitConn /\ [][NextConnReuse]_vars

(***************************************************************************)
(* SpecConnLate: the same loop late in the life of the process.  The module  *)
(* main loaded has answered 4294967294 requests without capturing anything:  *)
(* it holds the context of the last of them, and the counter is at its       *)
(* largest value.                                                            *)
(***************************************************************************)
LAST_ANSWERED_ID == U32(UINT16_MODULUS - 1, UINT16_MODULUS - 2)

InitConnLate ==
  /\ modules = [n \in { "a" } |->
                  [ModuleState EXCEPT !.has_ctx = TRUE,
                                      !.ctx = resetLocalResponse(NewContext),
                                      !.stream_context_id = LAST_ANSWERED_ID]]
  /\ g_next_context_id = U32_MAX
  /\ h = Idle
  /\ resp = NoResponse
  /\ handled = 0
  /\ call = NoCall
  /\ seen = {}
  /\ own = << >>
  /\ client_buffers = << >>
  /\ pending = << >>
  /\ cur = NoConnection
  /\ closed = << >>
  /\ context = NewContext
  /\ ctx_calls = << >>
  /\ threads = NoThreads
  /\ envs_ = NoEnvs
  /\ module_envs = << >>
  /\ proc = NotStarted
  /\ retired = << >>

SpecConnLate == InitConnLate /\ [][NextConn]_vars

(***************************************************************************)
(* SpecCtx: one LsWasmContext and the calls a guest makes on it.             *)
(***************************************************************************)
\* sendLocalResponse calls made on the context before it is reset.
MaxSends == 3

\* The arguments of a sendLocalResponse call.
SendArgs ==
  [code : { 200, 403 }, body : { "", "hello" }, details : { "", "blocked" }]

CtxSend(a) ==
  /\ Len(ctx_calls) < MaxSends
  /\ context' = sendLocalResponse(context, a.code, a.body, a.details)
  /\ ctx_calls' =
       Append(ctx_calls,
              [code |-> a.code, body |-> a.body, details |-> a.details,
               ret |-> sendLocalResponseResult(context, a.code, a.body, a.details)])
  /\ UNCHANGED << modules, g_next_context_id, h, resp, handled, call, seen, own >>
  /\ UNCHANGED << conn, ext, retired >>

CtxReset ==
  /\ ctx_calls # << >>
  /\ context' = resetLocalResponse(context)
  /\ ctx_calls' = << >>
  /\ UNCHANGED << modules, g_next_context_id, h, resp, handled, call, seen, own >>
  /\ UNCHANGED << conn, ext, retired >>

\* log calls made on the context.
MaxLogs == 2

\* The levels and messages of the log calls.
LogLevels == { 0, 2, 5 }

LogMessages == { "", "denied by policy" }

CtxLog(level, message) ==
  /\ Len(context.log_) < 2 * MaxLogs
  /\ context' = log(context, level, message)
  /\ call' = [NoCall EXCEPT !.op = "log", !.message = message,
                            !.outcome = logResult(context, level, message)]
  /\ UNCHANGED << modules, g_next_context_id, h, resp, handled, seen, own,
                  ctx_calls >>
  /\ UNCHANGED << conn, ext, retired >>

NextCtx ==
  \/ \E a \in SendArgs : CtxSend(a)
  \/ CtxReset
  \/ \E level \in LogLevels, message \in LogMessages : CtxLog(level, message)

\* A context as create_context leaves it, before any call of the guest.
InitCtx ==
  /\ Init
  /\ g_next_context_id = FIRST_CONTEXT_ID

SpecCtx == InitCtx /\ [][NextCtx]_vars

(***************************************************************************)
(* SpecThreads: the manager called from several threads.  The class holds    *)
(* no lock, so the calls interleave at their accesses to modules_:           *)
(* executeFilter searches the map (find), then works through the reference   *)
(* `state` into the map node it found.  loadModuleFromMemory and             *)
(* unloadModule are taken as one step each (their own search is not split),  *)
(* and two callbacks on one module are taken in some order.  A search that   *)
(* overlaps a mutation of the map, and a use of a reference to an erased     *)
(* node, are undefined behaviour: the process crashes or goes on with        *)
(* whatever the freed or half-linked memory holds.                           *)
(***************************************************************************)
\* The request a thread handles: each thread has its own context id.
ThreadContextId(t) == U32(0, t)

\* The process has died.
Crashed == [t \in ThreadIds |-> [NotInCall EXCEPT !.pc = "crashed"]]

\* executeFilter is entered: modules_.find(module_name) starts.
ThreadBeginFind(t, name, phase) ==
  /\ threads[t].pc = "idle"
  /\ threads' = [threads EXCEPT ![t] =
                   [NotInCall EXCEPT !.pc = "find", !.name = name,
                                     !.context_id = ThreadContextId(t),
                                     !.phase = phase]]
  /\ UNCHANGED << modules, g_next_context_id, h, resp, handled, call, seen, own,
                  conn, unit, env, proc >>

\* find returns.  Without a concurrent mutation the thread holds a reference
\* to the node of a registered name, or executeFilter returns false.  After a
\* concurrent mutation the search may crash, miss a registered name, or end
\* on a node.
ThreadEndFind(t, found) ==
  /\ threads[t].pc = "find"
  /\ IF threads[t].raced
     THEN \/ threads' = Crashed
          \/ /\ found = hasModule(modules, threads[t].name)
             /\ threads' = [threads EXCEPT ![t] =
                              IF found THEN [@ EXCEPT !.pc = "in_call"]
                              ELSE NotInCall]
          \/ /\ ~found
             /\ threads' = [threads EXCEPT ![t] = NotInCall]
     ELSE /\ found = hasModule(modules, threads[t].name)
          /\ threads' = [threads EXCEPT ![t] =
                           IF found THEN [@ EXCEPT !.pc = "in_call"]
                           ELSE NotInCall]
  /\ UNCHANGED << modules, g_next_context_id, h, resp, handled, call, seen, own,
                  conn, unit, env, proc >>

\* The rest of executeFilter, through the reference `state`.  If the node was
\* erased the reference dangles: the call crashes, or it runs on the freed
\* ModuleState and the registry shows nothing of it.
ThreadCallback(t, g) ==
  /\ threads[t].pc = "in_call"
  /\ IF threads[t].dangling
     THEN /\ \/ threads' = Crashed
             \/ threads' = [threads EXCEPT ![t] = NotInCall]
          /\ UNCHANGED modules
     ELSE /\ modules' = executeFilter(modules, threads[t].name,
                                      threads[t].context_id, threads[t].phase,
                                      g).modules
          /\ threads' = [threads EXCEPT ![t] = NotInCall]
  /\ UNCHANGED << g_next_context_id, h, resp, handled, call, seen, own,
                  conn, unit, env, proc >>

\* The threads after the map was mutated: a search in progress has raced
\* with it, and a reference to an erased node dangles.
AfterMutation(ths, mutated, erased) ==
  [u \in ThreadIds |->
     IF mutated /\ ths[u].pc = "find" THEN [ths[u] EXCEPT !.raced = TRUE]
     ELSE IF ths[u].pc = "in_call" /\ ths[u].name \in erased
     THEN [ths[u] EXCEPT !.dangling = TRUE]
     ELSE ths[u]]

\* unloadModule on another thread: modules_.erase(it) frees the node.
ThreadUnload(t, name) ==
  /\ threads[t].pc = "idle"
  /\ LET r == unloadModule(modules, name) IN
     /\ modules' = r.modules
     /\ threads' = AfterMutation(threads, r.ret, DOMAIN modules \ DOMAIN r.modules)
  /\ UNCHANGED << g_next_context_id, h, resp, handled, call, seen, own,
                  conn, unit, env, proc >>

\* loadModuleFromMemory on another thread: modules_[module_name] inserts a
\* node (references to the other nodes stay valid).
ThreadLoad(t, name, outcome) ==
  /\ threads[t].pc = "idle"
  /\ LET r == loadModuleFromMemory(modules, name, outcome) IN
     /\ modules' = r.modules
     /\ threads' = AfterMutation(threads, r.ret, DOMAIN modules \ DOMAIN r.modules)
  /\ UNCHANGED << g_next_context_id, h, resp, handled, call, seen, own,
                  conn, unit, env, proc >>

NextThreads ==
  \/ \E t \in ThreadIds, name \in Names, phase \in ApiPhases :
        ThreadBeginFind(t, name, phase)
  \/ \E t \in ThreadIds, found \in BOOLEAN : ThreadEndFind(t, found)
  \/ \E t \in ThreadIds, g \in ApiGuestChoices : ThreadCallback(t, g)
  \/ \E t \in ThreadIds, name \in Names : ThreadUnload(t, name)
  \/ \E t \in ThreadIds, name \in Names, outcome \in LoadOutcomes :
        ThreadLoad(t, name, outcome)

SpecThreads == InitApi /\ [][NextThreads]_vars

(***************************************************************************)
(* SpecEnv: the environment variables of the manager and of its modules.     *)
(* The host offers the guest no call that writes the environment: a guest    *)
(* callback changes the module's stream context only.                        *)
(***************************************************************************)
\* The maps setEnvironmentVariables is called with.
EnvMaps ==
  { {}, { << "MODE", "dev" >> }, { << "MODE", "prod" >>, << "REGION", "eu" >> } }

\* setEnvironmentVariables handing the new map to the loaded modules too.
setEnvironmentVariables_Propagate(menvs, envs) ==
  [envs_ |-> envs, module_envs |-> [n \in DOMAIN menvs |-> envs]]

\* envs_ = envs
setEnvironmentVariables(menvs, envs) ==
  [envs_ |-> envs, module_envs |-> menvs]

\* LsWasm's constructor takes envs by value: the WasmBase holds a copy of the
\* manager's map as it is when the constructor runs.
LsWasm(envs) == envs

EnvSet(envs) ==
  LET r == setEnvironmentVariables(module_envs, envs) IN
  /\ envs_' = r.envs_
  /\ module_envs' = r.module_envs
  /\ call' = [NoCall EXCEPT !.op = "setEnvironmentVariables"]
  /\ UNCHANGED << modules, g_next_context_id, h, resp, handled, seen, own,
                  conn, unit, threads, proc >>

EnvLoad(name, outcome) ==
  LET r == loadModuleFromMemory(modules, name, outcome) IN
  /\ modules' = r.modules
  /\ module_envs' = IF r.ret THEN Put(module_envs, name, LsWasm(envs_))
                    ELSE module_envs
  /\ call' = [NoCall EXCEPT !.op = "loadModuleFromMemory", !.name = name,
                            !.ret = r.ret, !.outcome = outcome,
                            !.registered = hasModule(modules, name)]
  /\ UNCHANGED << g_next_context_id, h, resp, handled, seen, own,
                  conn, unit, threads, envs_, proc >>

\* The LsWasm goes with the ModuleState that holds it.
EnvUnload(name) ==
  LET r == unloadModule(modules, name) IN
  /\ modules' = r.modules
  /\ module_envs' = DropModule(module_envs, name)
  /\ call' = [NoCall EXCEPT !.op = "unloadModule", !.name = name, !.ret = r.ret,
                            !.registered = hasModule(modules, name)]
  /\ UNCHANGED << g_next_context_id, h, resp, handled, seen, own,
                  conn, unit, threads, envs_, proc >>

\* Guest activity: a callback run by executeFilter.
EnvExecuteFilter(name, phase, g) ==
  LET r == executeFilter(modules, name, FIRST_CONTEXT_ID, phase, g) IN
  /\ modules' = r.modules
  /\ call' = [NoCall EXCEPT !.op = "executeFilter", !.name = name,
                            !.context_id = FIRST_CONTEXT_ID, !.phase = phase,
                            !.ret = r.ret, !.invoked = r.invoked,
                            !.registered = hasModule(modules, name)]
  /\ UNCHANGED << g_next_context_id, h, resp, handled, seen, own,
                  conn, unit, threads, env, proc >>

NextEnv ==
  \/ \E envs \in EnvMaps : EnvSet(envs)
  \/ \E name \in Names, outcome \in LoadOutcomes : EnvLoad(name, outcome)
  \/ \E name \in Names : EnvUnload(name)
  \/ \E name \in Names, phase \in ApiPhases, g \in ConnGuestChoices :
        EnvExecuteFilter(name, phase, g)

SpecEnv == InitApi /\ [][NextEnv]_vars

(***************************************************************************)
(* SpecMain: main() from its first statement to the accept loop.  argv[1..]  *)
(* is any vector of at most MaxArgs words; a word is the sequence of its     *)
(* pieces, "=" being a piece of its own.  The loop over the arguments runs   *)
(* before the manager is made; std::stoi is called outside every try block.  *)
(***************************************************************************)
MaxArgs == 4

ArgWords ==
  { << "--port" >>, << "9090" >>, << "abc" >>, << "--uds" >>, << "--module" >>,
    << "f.wasm" >>, << "--env" >>, << "K", "=", "V" >>, << "BAD" >>,
    << "--help" >> }

Argvs == UNION { [1..n -> ArgWords] : n \in 0..MaxArgs }

\* std::string::find of one character: its first position, 0 for npos.
find(str, c) ==
  IF \E k \in 1..Len(str) : str[k] = c
  THEN CHOOSE k \in 1..Len(str) : str[k] = c /\ \A j \in 1..(k - 1) : str[j] # c
  ELSE 0

\* std::stoi: the number a string starts with; it throws when there is none.
stoi(str) ==
  IF Len(str) > 0 /\ str[1] = "9090" THEN [ok |-> TRUE, value |-> 9090]
  ELSE [ok |-> FALSE, value |-> 0]

\* One iteration of the loop over the arguments (lines 506-539).
parse_argument(p) ==
  LET arg  == p.argv[p.i]
      more == p.i + 1 <= Len(p.argv)
      val  == p.argv[p.i + 1]
  IN IF arg = << "--port" >> /\ more THEN
       IF stoi(val).ok THEN [p EXCEPT !.port = stoi(val).value, !.i = p.i + 2]
       ELSE [p EXCEPT !.pc = "exited", !.status = "SIGABRT"]
     ELSE IF arg = << "--uds" >> /\ more THEN
       [p EXCEPT !.uds_path = val, !.i = p.i + 2]
     ELSE IF arg = << "--module" >> /\ more THEN
       [p EXCEPT !.wasm_module_path = val, !.i = p.i + 2]
     ELSE IF arg = << "--env" >> /\ more THEN
       LET eq_pos == find(val, "=") IN
       IF eq_pos # 0
       THEN [p EXCEPT !.wasm_envs = Put(@, SubSeq(val, 1, eq_pos - 1),
                                        SubSeq(val, eq_pos + 1, Len(val))),
                      !.i = p.i + 2]
       ELSE [p EXCEPT !.pc = "exited", !.status = "1"]
     ELSE IF arg = << "--help" >> THEN
       [p EXCEPT !.pc = "exited", !.status = "0"]
     ELSE [p EXCEPT !.i = p.i + 1]

InitMain ==
  /\ modules = << >>
  /\ g_next_context_id = FIRST_CONTEXT_ID
  /\ h = Idle
  /\ resp = NoResponse
  /\ handled = 0
  /\ call = NoCall
  /\ seen = {}
  /\ own = << >>
  /\ client_buffers = << >>
  /\ pending = << >>
  /\ cur = NoConnection
  /\ closed = << >>
  /\ context = NewContext
  /\ ctx_calls = << >>
  /\ threads = NoThreads
  /\ envs_ = NoEnvs
  /\ module_envs = << >>
  /\ proc \in { [NotStarted EXCEPT !.pc = "args", !.argv = a] : a \in Argvs }
  /\ retired = << >>

MainParseArgument ==
  /\ proc.pc = "args"
  /\ proc.i <= Len(proc.argv)
  /\ proc' = parse_argument(proc)
  /\ UNCHANGED << modules, g_next_context_id, h, resp, handled, call, seen, own,
                  conn, unit, threads, env >>

\* The loop is over: the signal handlers are set and the manager is made.
MainCreateManager ==
  /\ proc.pc = "args"
  /\ proc.i > Len(proc.argv)
  /\ proc' = [proc EXCEPT !.pc = "envs", !.manager = TRUE]
  /\ UNCHANGED << modules, g_next_context_id, h, resp, handled, call, seen, own,
                  conn, unit, threads, env >>

\* if (!wasm_envs.empty()) setEnvironmentVariables(wasm_envs)
MainSetEnvironment ==
  LET envs == { << k, proc.wasm_envs[k] >> : k \in DOMAIN proc.wasm_envs }
      r    == setEnvironmentVariables(module_envs, envs)
  IN /\ proc.pc = "envs"
     /\ envs_' = IF envs # {} THEN r.envs_ ELSE envs_
     /\ module_envs' = IF envs # {} THEN r.module_envs ELSE module_envs
     /\ proc' = [proc EXCEPT !.pc = "load"]
     /\ UNCHANGED << modules, g_next_context_id, h, resp, handled, call, seen,
                     own, conn, unit, threads >>

\* if (!wasm_module_path.empty()) loadModule(wasm_module_path, module_name):
\* the file cannot be read, or loadModuleFromMemory is called.  The one
\* module main loads is the module "a" of the model.
MainLoadModule(outcome) ==
  LET given == proc.wasm_module_path # << >>
      read  == outcome # "unreadable"
      r     == loadModuleFromMemory(modules, "a", outcome)
  IN /\ proc.pc = "load"
     /\ modules' = IF given /\ read THEN r.modules ELSE modules
     /\ module_envs' = IF given /\ read /\ r.ret
                       THEN Put(module_envs, "a", LsWasm(envs_))
                       ELSE module_envs
     /\ proc' = [proc EXCEPT !.pc = "server"]
     /\ UNCHANGED << g_next_context_id, h, resp, handled, call, seen, own,
                     conn, unit, threads, envs_ >>

\* server->start(): the socket listens, or main returns 1.
MainStartServer(started) ==
  /\ proc.pc = "server"
  /\ proc' = IF started THEN [proc EXCEPT !.pc = "serving", !.listening = TRUE]
             ELSE [proc EXCEPT !.pc = "exited", !.status = "1"]
  /\ UNCHANGED << modules, g_next_context_id, h, resp, handled, call, seen, own,
                  conn, unit, threads, env >>

\* g_shutdown is set: accept_connections returns and main returns 0.
MainShutdown ==
  /\ proc.pc = "serving"
  /\ proc' = [proc EXCEPT !.pc = "exited", !.status = "0", !.listening = FALSE]
  /\ UNCHANGED << modules, g_next_context_id, h, resp, handled, call, seen, own,
                  conn, unit, threads, env >>

NextMain ==
  \/ MainParseArgument
  \/ MainCreateManager
  \/ MainSetEnvironment
  \/ \E outcome \in LoadOutcomes \cup { "unreadable" } : MainLoadModule(outcome)
  \/ \E started \in BOOLEAN : MainStartServer(started)
  \/ MainShutdown

SpecMain == InitMain /\ [][NextMain]_vars

(***************************************************************************)
(* SpecReload: one request id dispatched to modules that are unloaded and    *)
(* loaded again under the same name.  retired keeps, per name, the           *)
(* ModuleState that unloadModule erased last.                                *)
(***************************************************************************)
ReloadPhases == { "onRequestHeaders", "onRequestBody", "onDone" }

ReloadLoad(name, outcome) ==
  LET r == loadModuleFromMemory(modules, name, outcome) IN
  /\ modules' = r.modules
  /\ call' = [NoCall EXCEPT !.op = "loadModuleFromMemory", !.name = name,
                            !.ret = r.ret, !.outcome = outcome,
                            !.registered = hasModule(modules, name)]
  /\ UNCHANGED << g_next_context_id, h, resp, handled, seen, own, conn,
                  context, ctx_calls, retired, ext >>

ReloadUnload(name) ==
  LET r == unloadModule(modules, name) IN
  /\ modules' = r.modules
  /\ retired' = IF r.ret THEN Put(retired, name, modules[name]) ELSE retired
  /\ call' = [NoCall EXCEPT !.op = "unloadModule", !.name = name, !.ret = r.ret,
                            !.registered = hasModule(modules, name)]
  /\ UNCHANGED << g_next_context_id, h, resp, handled, seen, own, conn,
                  context, ctx_calls, ext >>

ReloadExecuteFilter(name, phase, g) ==
  LET r == executeFilter(modules, name, FIRST_CONTEXT_ID, phase, g) IN
  /\ modules' = r.modules
  /\ call' = [NoCall EXCEPT !.op = "executeFilter", !.name = name,
                            !.context_id = FIRST_CONTEXT_ID, !.phase = phase,
                            !.ret = r.ret,
                            !.registered = hasModule(modules, name),
                            !.invoked = r.invoked, !.created = r.created,
                            !.on_id = r.on_id, !.lr = r.before]
  /\ UNCHANGED << g_next_context_id, h, resp, handled, seen, own, conn,
                  context, ctx_calls, retired, ext >>

NextReload ==
  \/ \E name \in Names, outcome \in LoadOutcomes : ReloadLoad(name, outcome)
  \/ \E name \in Names : ReloadUnload(name)
  \/ \E name \in Names, phase \in ReloadPhases, g \in ApiGuestChoices :
        ReloadExecuteFilter(name, phase, g)

SpecReload == InitApi /\ [][NextReload]_vars

(***************************************************************************)
(* Helpers of the properties.                                                *)
(***************************************************************************)
\* The phases (1..8, positions in PhaseOrder) dispatched to module m, in the
\* order of the executeFilter calls.
PhasesOf(disp, m) ==
  LET sel == SelectSeq(disp, LAMBDA e : e[1] = m)
  IN [i \in 1..Len(sel) |-> sel[i][2]]

AllPhases == [i \in 1..Len(PhaseOrder) |-> i]

\* handle_client_data has returned for a request that parsed.
Answered == h.pc = "done" /\ h.parsed

(***************************************************************************)
(* C1  Short-circuit law.  If a guest called sendLocalResponse during the    *)
(* request's onRequestHeaders callback, no executeFilter call (hence no      *)
(* callback) is made for a later phase, and the response sent is the local   *)
(* response with the code and body one of those guests captured.             *)
(***************************************************************************)
C1_ShortCircuit ==
  h.rh_sends # {} =>
    /\ \A i \in 1..Len(h.disp) : h.disp[i][2] = 1
    /\ h.pc = "done" =>
         /\ resp.kind = "local"
         /\ \E c \in h.rh_sends : /\ resp.code = c.local_response_code
                                  /\ resp.body = c.local_response_body

(***************************************************************************)
(* C2  Isolation law.  What the handler of request A reads from the manager  *)
(* after A was dispatched to a module is the local response held by the      *)
(* context created for A under that module, whatever other ids were          *)
(* dispatched in between.                                                    *)
(***************************************************************************)
C2_Isolation ==
  (call.op = "checkLocalResponse" /\ call.name \in DOMAIN own)
    => /\ call.lr.has_local_response = own[call.name].has_local_response
       /\ call.lr.local_response_code = own[call.name].local_response_code
       /\ call.lr.local_response_body = own[call.name].local_response_body

(***************************************************************************)
(* C3  A callback dispatched with context id X runs on the context that was  *)
(* created for X, never on one created for another id.                       *)
(***************************************************************************)
C3_OwnContext ==
  (call.op = "executeFilter" /\ call.invoked) => call.on_id = call.context_id

(***************************************************************************)
(* C4  Phase-ordering law.  A parsed request in whose onRequestHeaders phase *)
(* no guest captured a local response is dispatched to every loaded module   *)
(* in the eight phases of PhaseOrder, in order, once each.                   *)
(***************************************************************************)
C4_PhaseOrder ==
  (Answered /\ h.rh_sends = {}) =>
    \A m \in DOMAIN modules : PhasesOf(h.disp, m) = AllPhases

(***************************************************************************)
(* C5  Identity law.  The id a request gets is the counter's value before    *)
(* its fetch_add, so successive ids are the counter's successive values:     *)
(* they are strictly increasing if every change of the counter increases it. *)
(***************************************************************************)
C5_StrictlyIncreasing ==
  [][g_next_context_id' # g_next_context_id
       => U32Less(g_next_context_id, g_next_context_id')]_vars

(***************************************************************************)
(* C6  The first dispatch for an id under a module, in any recognised phase, *)
(* creates a context for the id, and the callback finds no local response    *)
(* on it.  (Stated for calls that return true.)                              *)
(***************************************************************************)
C6_FreshOnFirstPhase ==
  (/\ call.op = "executeFilter"
   /\ call.registered
   /\ call.first
   /\ call.phase \in KnownPhases
   /\ call.ret)
    => (call.created /\ ~call.lr.has_local_response)

(***************************************************************************)
(* C7  Once a guest has captured a local response in some phase, no module   *)
(* is dispatched in a later phase of that request.                           *)
(***************************************************************************)
C7_CaptureStopsPipeline == h.sent_before => h.mi <= 1

(***************************************************************************)
(* C8  Retirement.  A module holds no context of a request that is over: a   *)
(* stored context belongs to the request in progress.                        *)
(***************************************************************************)
C8_Retired ==
  \A m \in DOMAIN modules :
    modules[m].has_ctx =>
      (h.pc # "idle" /\ modules[m].stream_context_id = h.ctx_id)

(***************************************************************************)
(* C9  Fail-open, as claimed.  If an executeFilter call failed, every phase  *)
(* was still dispatched to every module and a response was sent.             *)
(***************************************************************************)
C9_FailOpen ==
  (Answered /\ h.failed_any) =>
    /\ resp.kind # "none"
    /\ \A m \in DOMAIN modules : PhasesOf(h.disp, m) = AllPhases

(***************************************************************************)
(* C9  Fail-open, as amended.  If an executeFilter call failed, a response   *)
(* was still sent, onRequestHeaders was dispatched to every module, and so   *)
(* was every later phase unless a local response was present after the       *)
(* onRequestHeaders phase (then the local response is what was sent).        *)
(***************************************************************************)
C9_FailOpenAmended ==
  (Answered /\ h.failed_any) =>
    IF h.http_data.has_local_response
    THEN /\ resp.kind = "local"
         /\ \A m \in DOMAIN modules : PhasesOf(h.disp, m) = << 1 >>
    ELSE /\ resp.kind = "default"
         /\ \A m \in DOMAIN modules : PhasesOf(h.disp, m) = AllPhases

\* A request in which a call failed, no local response was present and all
\* eight phases went to two modules.
C9_Witness ==
  /\ Answered
  /\ h.failed_any
  /\ ~h.http_data.has_local_response
  /\ Len(h.mods) = 2
  /\ Len(h.disp) = 2 * Len(PhaseOrder)
  /\ resp.kind = "default"

(***************************************************************************)
(* C10  Duplicate load.  loadModuleFromMemory with a registered name returns *)
(* false, runs no step of the load, and leaves the registry as it was: the   *)
(* module stays registered with its stored context and local response, and   *)
(* getLoadedModules lists the name once.                                     *)
(***************************************************************************)
C10_DuplicateLoad ==
  [][(call'.op = "loadModuleFromMemory" /\ hasModule(modules, call'.name))
       => /\ call'.ret = FALSE
          /\ call'.steps = << >>
          /\ modules' = modules
          /\ hasModule(modules', call'.name)
          /\ Cardinality({ i \in DOMAIN getLoadedModules(modules') :
                             getLoadedModules(modules')[i] = call'.name }) = 1]_vars

\* A duplicate load of a module that holds a context with a local response.
C10_Witness ==
  /\ call.op = "loadModuleFromMemory"
  /\ call.registered
  /\ ~call.ret
  /\ hasLocalResponse(modules, call.name)

(***************************************************************************)
(* C11  Load is all-or-nothing.  A load of an unregistered name runs load,   *)
(* initialize, start, configure in that order and stops at the first step    *)
(* that fails.  It returns true iff all four succeed; then the module is     *)
(* registered, listed, and dispatchable, and the other modules are as they   *)
(* were.  Otherwise (a throw included) the registry is as before the call.   *)
(***************************************************************************)
AllLoadSteps == << "load", "initialize", "start", "configure" >>

C11_LoadAllOrNothing ==
  [][(call'.op = "loadModuleFromMemory" /\ ~hasModule(modules, call'.name))
       => /\ call'.steps = SubSeq(AllLoadSteps, 1, Len(call'.steps))
          /\ call'.ret <=> call'.outcome = "ok"
          /\ call'.outcome = "ok" => call'.steps = AllLoadSteps
          /\ call'.outcome = "load_fails" => call'.steps = << "load" >>
          /\ call'.outcome = "initialize_fails"
               => call'.steps = << "load", "initialize" >>
          /\ call'.outcome = "start_fails"
               => call'.steps = << "load", "initialize", "start" >>
          /\ call'.outcome = "configure_fails" => call'.steps = AllLoadSteps
          /\ IF call'.ret
             THEN /\ hasModule(modules', call'.name)
                  /\ \E i \in DOMAIN getLoadedModules(modules') :
                        getLoadedModules(modules')[i] = call'.name
                  /\ \A id \in ApiIds :
                        LET r == executeFilter(modules', call'.name, id,
                                               "onRequestHeaders", QuietGuest)
                        IN r.ret /\ r.invoked
                  /\ DOMAIN modules' = DOMAIN modules \cup { call'.name }
                  /\ \A n \in DOMAIN modules : modules'[n] = modules[n]
             ELSE modules' = modules]_vars

\* A load that failed at start while another module holds a context.
C11_Witness ==
  /\ call.op = "loadModuleFromMemory"
  /\ ~call.registered
  /\ call.outcome = "start_fails"
  /\ ~call.ret
  /\ \E n \in DOMAIN modules : modules[n].has_ctx

(***************************************************************************)
(* C12  unloadModule.  On a name that is not registered it returns false and *)
(* the registry is unchanged.  On a registered name it returns true, the     *)
(* name is no longer registered or listed, and every other module is as it   *)
(* was.                                                                      *)
(***************************************************************************)
C12_Unload ==
  [][call'.op = "unloadModule"
       => IF hasModule(modules, call'.name)
          THEN /\ call'.ret
               /\ ~hasModule(modules', call'.name)
               /\ \A i \in DOMAIN getLoadedModules(modules') :
                     getLoadedModules(modules')[i] # call'.name
               /\ DOMAIN modules' = DOMAIN modules \ { call'.name }
               /\ \A n \in DOMAIN modules' : modules'[n] = modules[n]
          ELSE /\ ~call'.ret
               /\ modules' = modules]_vars

\* A successful unload that left another module with its local response.
C12_Witness ==
  /\ call.op = "unloadModule"
  /\ call.ret
  /\ \E n \in DOMAIN modules : hasLocalResponse(modules, n)

(***************************************************************************)
(* C13  Module gone.  executeFilter on a name that is not registered (it was *)
(* unloaded and not loaded again, or never loaded) returns false, runs no    *)
(* guest callback and changes nothing, whatever was dispatched for the id    *)
(* before the unload.                                                        *)
(***************************************************************************)
C13_ModuleGone ==
  [][(call'.op = "executeFilter" /\ ~hasModule(modules, call'.name))
       => /\ ~call'.ret
          /\ ~call'.invoked
          /\ ~call'.created
          /\ modules' = modules]_vars

\* A later phase of the tracked request dispatched to a module that was
\* unloaded after the request had been dispatched to it.
C13_Witness ==
  /\ call.op = "executeFilter"
  /\ ~call.registered
  /\ call.context_id = TrackedId
  /\ call.name \in seen
  /\ call.phase = "onRequestBody"
  /\ ~call.ret

(***************************************************************************)
(* C14  Unknown phase.  For a registered module whose VM has not failed,     *)
(* executeFilter with a phase name it does not recognise returns true,       *)
(* writes the "Unknown phase" diagnostic, runs no guest callback, creates no *)
(* context and leaves the registry (stored context, its id, its local        *)
(* response) unchanged.                                                      *)
(***************************************************************************)
C14_UnknownPhase ==
  [][(/\ call'.op = "executeFilter"
      /\ hasModule(modules, call'.name)
      /\ ~modules[call'.name].wasm_failed
      /\ call'.phase \in UnknownPhases)
       => /\ call'.ret
          /\ ~call'.invoked
          /\ ~call'.created
          /\ modules' = modules
          /\ \A g \in GuestChoices :
                executeFilterLog(modules, call'.name, call'.context_id,
                                 call'.phase, g)
                  = << "Executing", "Unknown phase" >>]_vars

\* An unknown phase dispatched to a module that holds a captured local
\* response.
C14_Witness ==
  /\ call.op = "executeFilter"
  /\ call.registered
  /\ call.phase \in UnknownPhases
  /\ call.ret
  /\ ~modules[call.name].wasm_failed
  /\ hasLocalResponse(modules, call.name)

C16_ExactlyOneResponse ==
  Answered =>
    /\ h.sends = 1
    /\ resp.kind \in { "default", "local" }
    /\ resp.kind = "default" <=> ~h.lr_after_rh
    /\ resp.kind = "local" => resp = build_local_response(h.http_data)

\* A default response to a request dispatched to two modules, one of which
\* captured a local response after the onRequestHeaders phase.
C16_Witness ==
  /\ Answered
  /\ Len(h.mods) = 2
  /\ resp.kind = "default"
  /\ h.sent_before
  /\ SomeLocalResponse(modules)

(***************************************************************************)
(* C17  Content-Length framing.  While the phases of a request that carries  *)
(* Content-Length: 5 are dispatched, all five body bytes have been buffered  *)
(* and HttpData.request_body is the complete body.                           *)
(***************************************************************************)
\* The tokens of the buffer after the end of the headers.
AfterHeaderEnd(buf) ==
  IF ~HasHeaderEnd(buf) THEN << >>
  ELSE LET e == CHOOSE i \in 1..(Len(buf) - 1) :
                  /\ buf[i] = "CRLF" /\ buf[i + 1] = "CRLF"
                  /\ \A j \in 1..(i - 1) : ~(buf[j] = "CRLF" /\ buf[j + 1] = "CRLF")
       IN SubSeq(buf, e + 2, Len(buf))

C17_ContentLengthFraming ==
  (/\ h.pc = "phase"
   /\ cur.fd \in DOMAIN client_buffers
   /\ \E i \in DOMAIN client_buffers[cur.fd] :
         client_buffers[cur.fd][i] = "Content-Length: 5")
    => /\ AfterHeaderEnd(client_buffers[cur.fd]) = BodyOf(ScriptBody)
       /\ cur.request_body = BodyOf(ScriptBody)

(***************************************************************************)
(* C18  Oversize drop.  No open connection holds more than MAX_REQUEST_SIZE  *)
(* bytes; a connection whose buffer exceeded it was closed by the step that  *)
(* appended the bytes, and that step entered no handler, dispatched nothing  *)
(* and sent nothing; no handled connection had exceeded it.                  *)
(***************************************************************************)
C18_OversizeDrop ==
  /\ [](\A fd \in DOMAIN client_buffers :
          BufferSize(client_buffers[fd]) <= MAX_REQUEST_SIZE)
  /\ [](\A fd \in DOMAIN closed :
          closed[fd].size > MAX_REQUEST_SIZE
            => /\ closed[fd].why = "oversize"
               /\ closed[fd].dispatched = 0
               /\ closed[fd].sends = 0)
  /\ [][\A fd \in DOMAIN client_buffers :
          (fd \in DOMAIN closed' /\ closed'[fd].why = "oversize")
            => /\ closed'[fd].size > MAX_REQUEST_SIZE
               /\ fd \notin DOMAIN client_buffers'
               /\ cur.fd # fd
               /\ << h, resp, cur, modules, g_next_context_id >>' =
                    << h, resp, cur, modules, g_next_context_id >>]_vars

\* A connection dropped by the read that brought both the 65537th byte and
\* the end of the headers, and another one handled with 65536 bytes.
C18_Witness ==
  /\ \E fd \in DOMAIN closed :
       /\ closed[fd].why = "oversize"
       /\ closed[fd].size = MAX_REQUEST_SIZE + 1
  /\ \E fd \in DOMAIN closed :
       /\ closed[fd].why = "handled"
       /\ closed[fd].size = MAX_REQUEST_SIZE
       /\ closed[fd].dispatched > 0

(***************************************************************************)
(* C19  Parse rejection.  When the buffer handed to handle_client_data lacks *)
(* a method or a path, the handler returns without sending a response,       *)
(* without dispatching to any module and without taking a context id; the    *)
(* next step of the loop closes the connection.                              *)
(***************************************************************************)
C19_ParseRejection ==
  /\ [][(/\ h.pc = "idle"
         /\ h'.pc # "idle"
         /\ Len(Words(client_buffers'[cur'.fd])) < 2)
          => /\ h'.pc = "done"
             /\ ~h'.parsed
             /\ h'.disp = << >>
             /\ h'.sends = 0
             /\ resp' = NoResponse
             /\ g_next_context_id' = g_next_context_id
             /\ modules' = modules]_vars
  /\ [][(h.pc = "done" /\ ~h.parsed)
          => /\ cur.fd \notin DOMAIN client_buffers'
             /\ cur.fd \in DOMAIN closed'
             /\ closed'[cur.fd].sends = 0
             /\ closed'[cur.fd].dispatched = 0
             /\ g_next_context_id' = g_next_context_id]_vars

\* A connection closed after its request was rejected.
C19_Witness ==
  \E fd \in DOMAIN closed :
    /\ closed[fd].why = "handled"
    /\ ~closed[fd].parsed
    /\ closed[fd].size = BufferSize(ScriptNoPath)

(***************************************************************************)
(* C20  Overwrite semantics.  After any sequence of sendLocalResponse calls  *)
(* on one context, the context holds the code, body and details of the most  *)
(* recent call and nothing of the earlier ones, hasLocalResponse is true,    *)
(* and every call returned Ok.                                               *)
(***************************************************************************)
C20_Overwrite ==
  ctx_calls # << >> =>
    LET last == ctx_calls[Len(ctx_calls)] IN
    /\ context.has_local_response
    /\ context.local_response_code = last.code
    /\ context.local_response_body = last.body
    /\ context.local_response_details = last.details
    /\ \A i \in DOMAIN ctx_calls : ctx_calls[i].ret = "Ok"

\* Three calls, the last with another code, an empty body and empty details
\* after a call with a body and details.
C20_Witness ==
  /\ Len(ctx_calls) = 3
  /\ ctx_calls[1].body = "hello"
  /\ ctx_calls[1].details = "blocked"
  /\ ctx_calls[1].code # ctx_calls[3].code
  /\ ctx_calls[3].body = ""
  /\ ctx_calls[3].details = ""

(***************************************************************************)
(* C21  Poisoned module.  A module whose VM has failed stays failed while it *)
(* is registered, and every executeFilter call on it returns false, writes   *)
(* only the "VM not available or failed" diagnostic, runs no guest callback, *)
(* creates no context and leaves the registry (stored context, stored id,    *)
(* local response) unchanged.                                                *)
(***************************************************************************)
C21_Poisoned ==
  /\ [][(/\ call'.op = "executeFilter"
         /\ hasModule(modules, call'.name)
         /\ modules[call'.name].wasm_failed)
          => /\ ~call'.ret
             /\ ~call'.invoked
             /\ ~call'.created
             /\ modules' = modules
             /\ \A g \in GuestChoices :
                   executeFilterLog(modules, call'.name, call'.context_id,
                                    call'.phase, g)
                     = << "Module VM not available or failed" >>]_vars
  /\ [][call'.op = "executeFilter"
          => \A n \in DOMAIN modules :
                modules[n].wasm_failed
                  => hasModule(modules', n) /\ modules'[n].wasm_failed]_vars

\* onRequestHeaders for a new id dispatched to a failed module that holds a
\* captured local response: the call that would otherwise create a context.
C21_Witness ==
  /\ call.op = "executeFilter"
  /\ call.registered
  /\ hasModule(modules, call.name)
  /\ modules[call.name].wasm_failed
  /\ ~call.ret
  /\ ~call.invoked
  /\ call.phase = "onRequestHeaders"
  /\ call.context_id # modules[call.name].stream_context_id
  /\ hasLocalResponse(modules, call.name)

(***************************************************************************)
(* C22  Guest faults are contained.  When context creation fails, the guest  *)
(* callback traps, or an exception unwinds out of the callback, the call     *)
(* completes, returns false, and the set of registered modules is as before. *)
(***************************************************************************)
C22_FaultContained ==
  [][(call'.op = "executeFilter" /\ call'.fault # "none")
       => /\ ~call'.ret
          /\ DOMAIN modules' = DOMAIN modules]_vars

(***************************************************************************)
(* C23  Module order within phases.  The executeFilter calls of a request    *)
(* that is not short-circuited are, phase after phase in the handler's       *)
(* order, one call per registered module in ascending order of the names:    *)
(* call number (p - 1) * n + k is for the k-th name in phase p.  The last    *)
(* call of a phase is made before the first call of the next one.            *)
(***************************************************************************)
\* The first len executeFilter calls of a request dispatched to names.
CallsInOrder(names, len) ==
  [i \in 1..len |->
     << names[((i - 1) % Len(names)) + 1], ((i - 1) \div Len(names)) + 1 >>]

C23_ModuleOrder ==
  LET names == SortedNames(DOMAIN modules)
      n     == Len(names)
  IN /\ (h.pc = "phase" /\ n > 0)
          => /\ h.mi \in 1..(n + 1)
             /\ h.disp = CallsInOrder(names, (h.phase - 1) * n + h.mi - 1)
     /\ (h.pc = "phase" /\ n = 0) => h.disp = << >>
     /\ (h.pc = "done" /\ resp.kind = "default")
          => /\ n > 0 => h.disp = CallsInOrder(names, Len(PhaseOrder) * n)
             /\ n = 0 => h.disp = << >>

\* A request answered by process_request after all eight phases were
\* dispatched to two modules, one of which failed a call.
C23_Witness ==
  /\ h.pc = "done"
  /\ resp.kind = "default"
  /\ DOMAIN modules = Names
  /\ Len(h.disp) = 2 * Len(PhaseOrder)
  /\ h.failed_any

(***************************************************************************)
(* C24  getLoadedModules.  After any sequence of loads, unloads and reloads  *)
(* the list holds exactly the registered names, each once, in ascending      *)
(* order of the names.                                                       *)
(***************************************************************************)
C24_LoadedModules ==
  LET l == getLoadedModules(modules) IN
  /\ { l[i] : i \in DOMAIN l } = { n \in Names : hasModule(modules, n) }
  /\ DOMAIN modules \subseteq Names
  /\ \A i, j \in DOMAIN l : i < j => NameRank(l[i]) < NameRank(l[j])

\* "a" has just been loaded while "b" was registered: the registry was filled
\* in the order b, a.
C24_Witness ==
  /\ call.op = "loadModuleFromMemory"
  /\ call.name = "a"
  /\ call.ret
  /\ ~call.registered
  /\ getLoadedModules(modules) = << "a", "b" >>

(***************************************************************************)
(* C25  Registry guarding.  With the manager called from several threads, a  *)
(* thread inside executeFilter holds a reference to a node that is still in  *)
(* the map, and no search of the map has overlapped a mutation of it.        *)
(***************************************************************************)
C25_RegistryGuarding ==
  \A t \in ThreadIds :
    /\ threads[t].pc = "in_call" => ~threads[t].dangling
    /\ threads[t].pc = "find" => ~threads[t].raced

(***************************************************************************)
(* C26  Environment snapshot.  A successful load gives the module the value  *)
(* of envs_ at that moment; from then on, while the module stays registered, *)
(* no call (setEnvironmentVariables, a load or unload of another module, a   *)
(* failed load of the same name, a guest callback) changes the module's      *)
(* environment.  Only registered modules hold an environment.                *)
(***************************************************************************)
C26_EnvSnapshot ==
  /\ [][(call'.op = "loadModuleFromMemory" /\ call'.ret)
          => module_envs'[call'.name] = envs_]_vars
  /\ [][\A n \in DOMAIN modules \cap DOMAIN modules' :
          module_envs'[n] = module_envs[n]]_vars
  /\ [](DOMAIN module_envs = DOMAIN modules)

\* setEnvironmentVariables has just been called while two modules hold two
\* different environments, both different from the new envs_, and a guest
\* callback has run on one of them.
C26_Witness ==
  /\ call.op = "setEnvironmentVariables"
  /\ DOMAIN modules = Names
  /\ module_envs["a"] # module_envs["b"]
  /\ module_envs["a"] # envs_
  /\ module_envs["b"] # envs_
  /\ hasLocalResponse(modules, "a")

(***************************************************************************)
(* C27  log.  A log call returns Ok and appends the message and a newline to *)
(* the log buffer of the context it is made on.  Nothing else changes: the   *)
(* captured local response (presence, code, body, details) is as before, and *)
(* so is what the handler reads from a module that holds this context, which *)
(* is all that decides the phases dispatched afterwards.                     *)
(***************************************************************************)
\* A registry whose module "a" holds ctx as its stream context.
HoldingContext(ctx) ==
  [n \in { "a" } |-> [ModuleState EXCEPT !.has_ctx = TRUE, !.ctx = ctx,
                                         !.stream_context_id = FIRST_CONTEXT_ID]]

C27_LogFrame ==
  [][Len(context'.log_) > Len(context.log_)
       => /\ call'.op = "log"
          /\ call'.outcome = "Ok"
          /\ context'.log_ = context.log_ \o << call'.message, "\n" >>
          /\ [context' EXCEPT !.log_ = context.log_] = context
          /\ ctx_calls' = ctx_calls
          /\ modules' = modules
          /\ h' = h
          /\ checkLocalResponse(HttpData, HoldingContext(context'), "a")
               = checkLocalResponse(HttpData, HoldingContext(context), "a")
          /\ UseLocalResponse(checkLocalResponse(HttpData, HoldingContext(context'), "a"))
               = UseLocalResponse(checkLocalResponse(HttpData, HoldingContext(context), "a"))]_vars

\* Two log calls, the second with an empty message, on a context that holds
\* a captured local response.
C27_Witness ==
  /\ call.op = "log"
  /\ call.message = ""
  /\ context.log_ = << "denied by policy", "\n", "", "\n" >>
  /\ context.has_local_response
  /\ context.local_response_code = 403
  /\ context.local_response_body = "hello"

(***************************************************************************)
(* C28  Accessor defaults.  In every reachable state, for every module name, *)
(* a false hasLocalResponse goes with a getLocalResponseCode of 0 and an     *)
(* empty getLocalResponseBody: for a name that is not registered, for a      *)
(* module that has no stream context yet, and for a module whose context     *)
(* was reset when it was created for a later request.                        *)
(***************************************************************************)
\* The names the accessors are asked about; "c" is never loaded.
AccessorNames == Names \cup { "c" }

C28_AccessorDefaults ==
  \A name \in AccessorNames :
    ~hasLocalResponse(modules, name)
      => /\ getLocalResponseCode(modules, name) = 0
         /\ getLocalResponseBody(modules, name) = ""

\* "a" answered the tracked request with a local response and then got a
\* fresh context for another request; "b" is loaded and was never
\* dispatched to; "c" is unknown.
C28_Witness ==
  /\ "a" \in DOMAIN own
  /\ own["a"].has_local_response
  /\ own["a"].local_response_code = 403
  /\ hasModule(modules, "a")
  /\ modules["a"].has_ctx
  /\ modules["a"].stream_context_id # TrackedId
  /\ ~hasLocalResponse(modules, "a")
  /\ hasModule(modules, "b")
  /\ ~modules["b"].has_ctx
  /\ ~hasModule(modules, "c")
  /\ ~hasLocalResponse(modules, "b")
  /\ ~hasLocalResponse(modules, "c")

(***************************************************************************)
(* C29  Connection-level error isolation.  A step that drops a connection    *)
(* for a read error, a peer close, an oversize buffer or an unparsable       *)
(* request closes that connection only: every other connection keeps its     *)
(* buffer, the registry and the context-id counter are as before, and the    *)
(* loop is back at waiting for events.  The step that finds the request      *)
(* unparsable changes neither the registry nor the counter nor any other     *)
(* connection's buffer.                                                      *)
(***************************************************************************)
\* The connection fd is dropped by this step for one of the four causes.
DroppedNow(fd) ==
  /\ fd \in DOMAIN closed' \ DOMAIN closed
  /\ \/ closed'[fd].why \in { "read_error", "peer_closed", "oversize" }
     \/ closed'[fd].why = "handled" /\ ~closed'[fd].parsed

\* The buffers of the connections other than fd are what they were.
OthersKept(fd) ==
  \A g \in Fds \ {fd} :
    /\ g \in DOMAIN client_buffers <=> g \in DOMAIN client_buffers'
    /\ g \in DOMAIN client_buffers => client_buffers'[g] = client_buffers[g]

C29_ErrorIsolation ==
  /\ [][\A fd \in Fds :
          DroppedNow(fd)
            => /\ fd \notin DOMAIN client_buffers'
               /\ OthersKept(fd)
               /\ DOMAIN closed' = DOMAIN closed \cup {fd}
               /\ modules' = modules
               /\ g_next_context_id' = g_next_context_id
               /\ h'.pc = "idle"
               /\ cur' = NoConnection]_vars
  /\ [][(h.pc = "idle" /\ h'.pc = "done" /\ ~h'.parsed)
          => /\ OthersKept(cur'.fd)
             /\ closed' = closed
             /\ modules' = modules
             /\ g_next_context_id' = g_next_context_id]_vars

\* Connection 1 was dropped for a read error; connection 2, accepted before
\* that, holds the bytes read from it so far and waits for the rest.
C29_Witness ==
  /\ 1 \in DOMAIN closed
  /\ closed[1].why = "read_error"
  /\ 2 \in DOMAIN client_buffers
  /\ client_buffers[2] = ScriptLong
  /\ hasModule(modules, "a")
  /\ h.pc = "idle"
(***************************************************************************)
(* C30  Malformed --env is fatal.  For every argument vector in which a      *)
(* --env option is followed by a value without '=', the process, once it     *)
(* has left the loop over the arguments, has exited with status 1; the       *)
(* module manager was not created, no module was loaded and no socket        *)
(* listens.                                                                  *)
(***************************************************************************)
\* The options that are followed by a value.
ValueOptions == { << "--port" >>, << "--uds" >>, << "--module" >>, << "--env" >> }

\* The positions of argv, from k on, at which an option stands: the word
\* after an option that takes a value is that value.
RECURSIVE OptionPositions(_, _)
OptionPositions(argv, k) ==
  IF k > Len(argv) THEN {}
  ELSE IF argv[k] \in ValueOptions /\ k + 1 <= Len(argv)
       THEN {k} \cup OptionPositions(argv, k + 2)
       ELSE {k} \cup OptionPositions(argv, k + 1)

\* Some --env option of the vector has a value without '='.
MalformedEnv(argv) ==
  \E k \in OptionPositions(argv, 1) :
    /\ k + 1 <= Len(argv)
    /\ argv[k] = << "--env" >>
    /\ \A j \in 1..Len(argv[k + 1]) : argv[k + 1][j] # "="

C30_MalformedEnvFatal ==
  MalformedEnv(proc.argv)
    => /\ ~proc.manager
       /\ ~proc.listening
       /\ modules = << >>
       /\ proc.pc # "args" => (proc.pc = "exited" /\ proc.status = "1")

(***************************************************************************)
(* C31  Local-response freshness across requests.  While a request is        *)
(* handled, HttpData.has_local_response is set only if a guest called        *)
(* sendLocalResponse during that request's own onRequestHeaders dispatch,    *)
(* and the code and body held are those captured by one of these calls: a    *)
(* local response captured during an earlier request is never used, also     *)
(* when executeFilter fails before a context is created.                     *)
(***************************************************************************)
C31_Freshness ==
  h.http_data.has_local_response
    => \E c \in h.rh_sends :
         /\ h.http_data.local_response_code = c.local_response_code
         /\ h.http_data.local_response_body = c.local_response_body

(***************************************************************************)
(* C32  Request processing is serialized.  From the step that enters         *)
(* handle_client_data for a connection to the step that closes it, no other  *)
(* connection is accepted, read or closed, no other request is begun, and    *)
(* the response is sent before the handler is left; and the context id a     *)
(* module stores only ever changes to a larger one, so that the ids reach    *)
(* each module in strictly increasing order.                                 *)
(***************************************************************************)
\* While a request is handled, the step leaves every other connection and
\* the request's id alone.
Serialized ==
  h.pc # "idle"
    => /\ \A fd \in Fds \ {cur.fd} :
            /\ fd \in DOMAIN client_buffers <=> fd \in DOMAIN client_buffers'
            /\ fd \in DOMAIN client_buffers
                 => /\ client_buffers'[fd] = client_buffers[fd]
                    /\ pending'[fd] = pending[fd]
            /\ fd \in DOMAIN closed <=> fd \in DOMAIN closed'
       /\ h'.pc # "idle" => (h'.ctx_id = h.ctx_id /\ cur' = cur)
       /\ (h'.pc = "idle" /\ h.parsed) => h.sends = 1

\* The id a module stores changes to a larger id only.
IdsIncrease ==
  \A m \in DOMAIN modules \cap DOMAIN modules' :
    modules'[m].stream_context_id # modules[m].stream_context_id
      => U32Less(modules[m].stream_context_id, modules'[m].stream_context_id)

C32_Serialized == [][Serialized /\ IdsIncrease]_vars

(***************************************************************************)
(* C33  RequestHeaders is not cut short by a capture.  onRequestHeaders is   *)
(* dispatched to every loaded module in listing order, also after a module   *)
(* has captured a local response, and the response sent has the code and     *)
(* the body of the last module in that order whose guest captured one.       *)
(***************************************************************************)
\* The modules onRequestHeaders was dispatched to, in the order of the calls.
RequestHeadersCalls ==
  LET sel == SelectSeq(h.disp, LAMBDA e : e[2] = 1)
  IN [i \in 1..Len(sel) |-> sel[i][1]]

C33_NotCutShort ==
  (Answered /\ h.last_sent # NoSend)
    => /\ RequestHeadersCalls = SortedNames(DOMAIN modules)
       /\ resp.kind = "local"
       /\ resp.code = h.last_sent.code
       /\ resp.body = h.last_sent.body

(***************************************************************************)
(* C34  onDone is not an exactly-once terminal signal.  A request answered   *)
(* without the short circuit has dispatched to each module the phase         *)
(* strings below, "onDone" twice among them: after onRequestTrailers and     *)
(* after onResponseTrailers.  A request answered with a local response has   *)
(* dispatched "onDone" to no module.                                         *)
(***************************************************************************)
\* The phase strings dispatched to module m, in the order of the calls.
PhaseStringsOf(m) ==
  LET sel == SelectSeq(h.disp, LAMBDA e : e[1] = m)
  IN [i \in 1..Len(sel) |-> PhaseOrder[sel[i][2]]]

\* The number of "onDone" dispatches to module m.
DoneCalls(m) ==
  Cardinality({ i \in 1..Len(h.disp) :
                  h.disp[i][1] = m /\ PhaseOrder[h.disp[i][2]] = "onDone" })

C34_DoneTwiceOrNever ==
  Answered
    => IF resp.kind = "local"
       THEN \A m \in Names : DoneCalls(m) = 0
       ELSE \A m \in DOMAIN modules :
              /\ DoneCalls(m) = 2
              /\ PhaseStringsOf(m) =
                   << "onRequestHeaders", "onRequestBody", "onRequestTrailers",
                      "onDone", "onResponseHeaders", "onResponseBody",
                      "onResponseTrailers", "onDone" >>

\* The second request of the process went through every phase with two
\* modules loaded: sixteen dispatches, four of them of "onDone".
C34_Witness ==
  /\ Answered
  /\ handled = 1
  /\ resp.kind = "default"
  /\ DOMAIN modules = Names
  /\ Len(h.disp) = 16
  /\ DoneCalls("a") = 2
  /\ DoneCalls("b") = 2

(***************************************************************************)
(* C35  Slot discipline.  A module stores one context and one context id.    *)
(* A step creates a context for a module, or changes whether the module      *)
(* stores one or the id stored, only if it is an executeFilter call of       *)
(* "onRequestHeaders" on that module, the module's VM has not failed, and    *)
(* the module stores nothing or stores another id.  Calls of other phases,   *)
(* of unknown phases, calls that fail before that point and the accessors    *)
(* leave the pair as it is.                                                  *)
(***************************************************************************)
\* The step stores another context for module m.
SlotChanged(m) ==
  \/ modules'[m].has_ctx # modules[m].has_ctx
  \/ modules'[m].stream_context_id # modules[m].stream_context_id
  \/ call'.op = "executeFilter" /\ call'.name = m /\ call'.created

C35_SlotDiscipline ==
  [][\A m \in DOMAIN modules \cap DOMAIN modules' :
       SlotChanged(m)
         => /\ call'.op = "executeFilter"
            /\ call'.name = m
            /\ call'.phase = "onRequestHeaders"
            /\ ~modules[m].wasm_failed
            /\ ~modules[m].has_ctx \/ modules[m].stream_context_id # call'.context_id
            /\ modules'[m].has_ctx
            /\ modules'[m].stream_context_id = call'.context_id]_vars

\* onRequestBody was dispatched with id 2 to a module that stores the
\* context of id 1: the callback ran, and the module still stores id 1.
C35_Witness ==
  /\ call.op = "executeFilter"
  /\ call.name = "a"
  /\ call.phase = "onRequestBody"
  /\ call.context_id = U32(0, 2)
  /\ call.invoked
  /\ ~call.created
  /\ hasModule(modules, "a")
  /\ modules["a"].has_ctx
  /\ modules["a"].stream_context_id = U32(0, 1)

(***************************************************************************)
(* C36  Repeated RequestHeaders on the same id is not a reset.  An           *)
(* executeFilter call of "onRequestHeaders" with the id the module stores    *)
(* creates no context and runs the callback on the stored one as it is: a    *)
(* local response captured before is what the callback finds, and after      *)
(* the call the context is as before, or as before with the local response   *)
(* the guest captured during the callback written over it.                   *)
(***************************************************************************)
\* The step dispatches onRequestHeaders to m with the id m stores.
SameIdRequestHeaders(m) ==
  /\ call'.op = "executeFilter"
  /\ call'.name = m
  /\ call'.phase = "onRequestHeaders"
  /\ m \in DOMAIN modules
  /\ ~modules[m].wasm_failed
  /\ modules[m].has_ctx
  /\ modules[m].stream_context_id = call'.context_id

C36_SameIdReuses ==
  [][\A m \in Names :
       SameIdRequestHeaders(m)
         => /\ ~call'.created
            /\ call'.invoked
            /\ call'.lr = modules[m].ctx
            /\ modules'[m].has_ctx
            /\ modules'[m].stream_context_id = modules[m].stream_context_id
            /\ modules[m].ctx.has_local_response
                 => modules'[m].ctx.has_local_response
            /\ \/ modules'[m].ctx = modules[m].ctx
               \/ \E s \in Sends :
                    modules'[m].ctx =
                      sendLocalResponse(modules[m].ctx, s.code, s.body, s.details)]_vars

\* The second onRequestHeaders of id 1 found the 403 captured by the first
\* and left it there.
C36_Witness ==
  /\ call.op = "executeFilter"
  /\ call.name = "a"
  /\ call.phase = "onRequestHeaders"
  /\ call.context_id = U32(0, 1)
  /\ call.invoked
  /\ ~call.created
  /\ call.lr.has_local_response
  /\ call.lr.local_response_code = 403
  /\ hasModule(modules, "a")
  /\ modules["a"].ctx = call.lr
  /\ hasLocalResponse(modules, "a")
  /\ getLocalResponseBody(modules, "a") = "denied"

(***************************************************************************)
(* C37  Cross-module frame.  An executeFilter call on module M, a load       *)
(* under the name M and an unload of the name M leave every module of        *)
(* another name as it was: registered or not, its stored context, its        *)
(* stored context id, its local response, and what the three accessors       *)
(* return for it.                                                            *)
(***************************************************************************)
\* The step is a call of one of the three operations under the name m.
CallOn(m) ==
  /\ call'.op \in { "executeFilter", "loadModuleFromMemory", "unloadModule" }
  /\ call'.name = m

C37_CrossModuleFrame ==
  [][\A m \in Names : \A n \in Names \ {m} :
       CallOn(m)
         => /\ n \in DOMAIN modules <=> n \in DOMAIN modules'
            /\ n \in DOMAIN modules => modules'[n] = modules[n]
            /\ hasLocalResponse(modules', n) = hasLocalResponse(modules, n)
            /\ getLocalResponseCode(modules', n) = getLocalResponseCode(modules, n)
            /\ getLocalResponseBody(modules', n) = getLocalResponseBody(modules, n)]_vars

\* The guest of "a" captured a 403 in a callback while "b" stores a context
\* that holds no local response.
C37_Witness ==
  /\ call.op = "executeFilter"
  /\ call.name = "a"
  /\ call.invoked
  /\ hasLocalResponse(modules, "a")
  /\ ~call.lr.has_local_response
  /\ hasModule(modules, "b")
  /\ modules["b"].has_ctx
  /\ ~hasLocalResponse(modules, "b")

(***************************************************************************)
(* C38  No state survives unload and reload.  A successful load registers    *)
(* a module that stores no context, whatever the module unloaded under the   *)
(* same name held: hasLocalResponse is false, getLocalResponseCode is 0 and  *)
(* getLocalResponseBody is empty for it, and this stays so until an          *)
(* onRequestHeaders dispatch to it.  A recognised phase other than           *)
(* onRequestHeaders dispatched to it before then returns true, runs no       *)
(* callback and changes nothing.                                             *)
(***************************************************************************)
\* Module m is registered and stores no context.
NoStoredContext(ms, m) == m \in DOMAIN ms /\ ~ms[m].has_ctx

C38_FreshAfterReload ==
  /\ [][\A m \in Names :
          (call'.op = "loadModuleFromMemory" /\ call'.name = m /\ call'.ret)
            => /\ NoStoredContext(modules', m)
               /\ ~modules'[m].wasm_failed]_vars
  /\ [](\A m \in Names :
          NoStoredContext(modules, m)
            => /\ ~hasLocalResponse(modules, m)
               /\ getLocalResponseCode(modules, m) = 0
               /\ getLocalResponseBody(modules, m) = "")
  /\ [][\A m \in Names :
          (NoStoredContext(modules, m) /\ ~NoStoredContext(modules', m))
            => \/ m \notin DOMAIN modules'
               \/ /\ call'.op = "executeFilter"
                  /\ call'.name = m
                  /\ call'.phase = "onRequestHeaders"]_vars
  /\ [][\A m \in Names :
          (/\ call'.op = "executeFilter"
           /\ call'.name = m
           /\ call'.phase \in KnownPhases \ { "onRequestHeaders" }
           /\ NoStoredContext(modules, m)
           /\ ~modules[m].wasm_failed)
            => /\ call'.ret
               /\ ~call'.invoked
               /\ modules' = modules]_vars

\* "a" was unloaded while it held a captured 403 and was loaded again;
\* onDone was then dispatched to it.
C38_Witness ==
  /\ "a" \in DOMAIN retired
  /\ retired["a"].has_ctx
  /\ retired["a"].ctx.has_local_response
  /\ retired["a"].ctx.local_response_code = 403
  /\ NoStoredContext(modules, "a")
  /\ call.op = "executeFilter"
  /\ call.name = "a"
  /\ call.phase = "onDone"
  /\ call.ret
  /\ ~call.invoked
  /\ ~hasLocalResponse(modules, "a")

(***************************************************************************)
(* C39  Connection buffer lifecycle.  client_buffers has an entry exactly    *)
(* for the connections that are open; every step that closes a connection    *)
(* (read error, peer close, oversize, request handled) removes its entry;    *)
(* the connection a request is handled for is open until the handler         *)
(* returns and is closed by the step that follows, so that it has one        *)
(* request dispatched at most; and a connection that is accepted starts      *)
(* with an empty buffer, also under the descriptor number of a connection    *)
(* closed before.                                                            *)
(***************************************************************************)
\* The step closes the connection fd.
ClosedNow(fd) ==
  /\ fd \in DOMAIN pending
  /\ \/ fd \notin DOMAIN pending'
     \/ fd \in DOMAIN closed' /\ fd \notin DOMAIN closed
     \/ fd \in DOMAIN closed' /\ fd \in DOMAIN closed /\ closed'[fd] # closed[fd]

\* The step accepts a connection under the number fd.
AcceptedNow(fd) == fd \notin DOMAIN pending /\ fd \in DOMAIN pending'

C39_BufferLifecycle ==
  /\ [](DOMAIN client_buffers = DOMAIN pending)
  /\ [](h.pc # "idle" => cur.fd \in DOMAIN client_buffers)
  /\ [][\A fd \in Fds : ClosedNow(fd) => fd \notin DOMAIN client_buffers']_vars
  /\ [][(h.pc # "idle" /\ h'.pc = "idle")
          => /\ cur.fd \notin DOMAIN client_buffers'
             /\ closed'[cur.fd].why = "handled"
             /\ handled' = handled + 1]_vars
  /\ [][\A fd \in Fds : AcceptedNow(fd) => client_buffers'[fd] = << >>]_vars

\* The connection under number 1 was dropped with more than 65536 bytes in
\* its buffer; the connection accepted under number 1 after it has an empty
\* buffer, and its request has yet to be read.
C39_Witness ==
  /\ 1 \in DOMAIN closed
  /\ closed[1].why = "oversize"
  /\ closed[1].size > MAX_REQUEST_SIZE
  /\ 1 \in DOMAIN client_buffers
  /\ client_buffers[1] = << >>
  /\ pending[1] = ScriptGet

====
